---- MODULE Spec2Model ----
(***************************************************************************)
(* A model of rcc's IR builder (src/src/gen_ir.rs), of its x86-64 emitter  *)
(* (src/src/codegen.rs) and of its input buffer (src/src/rcc_env.rs).      *)
(*                                                                         *)
(* Heap objects are modelled by handles: a basic block is its index in the *)
(* owning function's `bbs`, a register is its index in the function's      *)
(* `regs` (the Reg objects in creation order), an IR instruction is the    *)
(* pair <<block, position>>.  Handle 0 is Option::None.                    *)
(***************************************************************************)
EXTENDS Integers, Sequences, FiniteSets, TLC

VARIABLES input, prog, FN, OUT, NREG, NLABEL, pc, pi,
          fns, epc, efi, eji, asm, LABEL, ret,
          buf, call

vars == <<input, prog, FN, OUT, NREG, NLABEL, pc, pi, fns, epc, efi, eji, asm, LABEL, ret, buf, call>>

bvars == <<input, prog, FN, OUT, NREG, NLABEL, pc, pi>>

evars == <<fns, epc, efi, eji, asm, LABEL, ret>>

rvars == <<buf, call>>

\* No call of a Buffer method yet.
NoCall == [op |-> "new", ret |-> <<>>, old |-> 0, prev |-> "new", before |-> 0, st |-> "ok"]

\* No Buffer is read.
ROff == buf = [chars |-> <<>>, idx |-> 0] /\ call = NoCall

(***************************************************************************)
(* Bounds of the model.                                                    *)
(***************************************************************************)
MaxFuncs == 2

MaxParams == 2

(***************************************************************************)
(* The typed AST the builder consumes (crate::parse::Node), by node kind.  *)
(***************************************************************************)
Ty(size, offset, cty) == [ty |-> cty, size |-> size, offset |-> offset]

TyInt == Ty(4, 0, "INT")

Var(name, is_local, size) == [name |-> name, is_local |-> is_local, ty |-> Ty(size, 0, "INT")]

Num(v) == [op |-> "NUM", val |-> v]

Bin(op, l, r) == [op |-> op, lhs |-> l, rhs |-> r]

Un(op, e) == [op |-> op, expr |-> e]

VarRef(v) == [op |-> "VARREF", var |-> v, ty |-> v.ty]

Dot(e, ty) == [op |-> "DOT", expr |-> e, ty |-> ty]

Deref(e, ty) == [op |-> "DEREF", expr |-> e, ty |-> ty]

Cast(e, ty) == [op |-> "CAST", expr |-> e, ty |-> ty]

Call(name, args) == [op |-> "CALL", name |-> name, args |-> args]

StmtExpr(stmts, e) == [op |-> "STMT_EXPR", stmts |-> stmts, expr |-> e]

Eql(l, r, ty) == [op |-> "EQL", lhs |-> l, rhs |-> r, ty |-> ty]

Quest(c, t, e) == [op |-> "QUEST", cond |-> c, then |-> t, els |-> e]

\* Option<node> fields are sequences of length 0 (None) or 1 (Some).
If(c, t, e) == [op |-> "IF", cond |-> c, then |-> t, els |-> e]

For(id, init, c, inc, body) == [op |-> "FOR", id |-> id, init |-> init, cond |-> c, inc |-> inc, body |-> body]

DoWhile(id, body, c) == [op |-> "DO_WHILE", id |-> id, body |-> body, cond |-> c]

Case(id, val, body) == [op |-> "CASE", id |-> id, val |-> val, body |-> body]

\* A `default:` label inside the body of a switch, as the design's switch
\* example writes it.
Default(id, body) == [op |-> "DEFAULT", id |-> id, body |-> body]

Switch(id, c, cases, body) == [op |-> "SWITCH", id |-> id, cond |-> c, cases |-> cases, body |-> body]

Break(target) == [op |-> "BREAK", target |-> target]

Continue(target) == [op |-> "CONTINUE", target |-> target]

Return(e) == [op |-> "RETURN", expr |-> e]

ExprStmt(e) == [op |-> "EXPR_STMT", expr |-> e]

CompStmt(stmts) == [op |-> "COMP_STMT", stmts |-> stmts]

Null == [op |-> "NULL"]

FuncNode(params, body) == [op |-> "FUNC", params |-> params, body |-> body]

(***************************************************************************)
(* Objects of the IR.                                                      *)
(***************************************************************************)
alloc_reg == [vn |-> -1, rn |-> -1, promoted |-> 0, def |-> -1, last_use |-> -1, spill |-> FALSE, var |-> ""]

alloc_bb == [label |-> 0, ir |-> <<>>, param |-> 0, succ |-> <<>>, pred |-> <<>>,
             def_regs |-> <<>>, in_regs |-> <<>>, out_regs |-> <<>>]

alloc_ir == [op |-> "NOP", r0 |-> 0, r1 |-> 0, r2 |-> 0, imm |-> 0, label |-> 0, var |-> "",
             bb1 |-> 0, bb2 |-> 0, size |-> 0, name |-> "", nargs |-> 0, args |-> <<>>,
             stacksize |-> 0, ir |-> <<>>, globals |-> <<>>, kill |-> <<>>, bbarg |-> 0]

alloc_node == [op |-> "NULL"]

\* A Function before gen_ir has run on it.
Func(name, params, body) ==
    [name |-> name, node |-> FuncNode(params, body), bbs |-> <<>>, regs |-> <<>>,
     taken |-> {}, brk |-> <<>>, cnt |-> <<>>, cbb |-> <<>>, log |-> <<>>]

(***************************************************************************)
(* The builder's primitives.  They act on a record b that gathers the      *)
(* thread-locals (out, nreg, nlabel), the current function's objects and   *)
(* the locals of the running builder functions: b.stk is the stack of      *)
(* their values, a function's locals being the slots above the height f    *)
(* the stack had when it was entered.  A function that returns a value     *)
(* leaves it on top of the stack; new_ir leaves the instruction it made in *)
(* b.h.  b.err is set by a panic, after which nothing changes.             *)
(***************************************************************************)
panic(b) == [b EXCEPT !.err = TRUE]

\* The value in slot i; slot 0 is None.
slot(b, i) == IF i = 0 THEN 0 ELSE b.stk[i]

Top(b) == b.stk[Len(b.stk)]

push(b, v) == IF b.err THEN b ELSE [b EXCEPT !.stk = Append(@, v)]

\* Return from the function entered at height f, with the value of slot i.
leave(b, f, i) == IF b.err THEN b ELSE [b EXCEPT !.stk = Append(SubSeq(@, 1, f), @[i])]

\* Return from the function entered at height f, without a value.
leave0(b, f) == IF b.err THEN b ELSE [b EXCEPT !.stk = SubSeq(@, 1, f)]

\* bump_nreg without its increment.
bump_nreg_stuck(b) == [b EXCEPT !.stk = Append(@, b.nreg)]

\* bump_nreg counting in twos.
bump_nreg_twice(b) == [b EXCEPT !.nreg = b.nreg + 2, !.stk = Append(@, b.nreg)]

bump_nreg(b) == [b EXCEPT !.nreg = b.nreg + 1, !.stk = Append(@, b.nreg)]

bump_nlabel(b) == [b EXCEPT !.nlabel = b.nlabel + 1, !.stk = Append(@, b.nlabel)]

fn_bbs_push(b, bb) == [b EXCEPT !.bbs = Append(@, bb)]

set_out(b, bb) == IF b.err THEN b ELSE [b EXCEPT !.out = bb]

out_ir_push(b, ir) ==
    IF b.out = 0 THEN panic(b)
    ELSE [b EXCEPT !.bbs[b.out].ir = Append(@, ir), !.h = <<b.out, Len(b.bbs[b.out].ir) + 1>>]

out_param_set(b, reg) ==
    IF b.err THEN b
    ELSE IF b.out = 0 THEN panic(b)
    ELSE [b EXCEPT !.bbs[b.out].param = reg]

out_param_get(b) ==
    IF b.err THEN b
    ELSE IF b.out = 0 \/ b.bbs[b.out].param = 0 THEN panic(b)
    ELSE push(b, b.bbs[b.out].param)

\* new_bb once bump_nlabel has left the label on the stack.
bb_init(b) ==
    [fn_bbs_push(b, [alloc_bb EXCEPT !.label = Top(b)]) EXCEPT !.stk[Len(b.stk)] = Len(b.bbs) + 1]

new_bb(b) == IF b.err THEN b ELSE bb_init(bump_nlabel(b))

new_ir(b, op) == IF b.err THEN b ELSE out_ir_push(b, [alloc_ir EXCEPT !.op = op])

\* new_reg once bump_nreg has left the number on the stack.
reg_init(b) ==
    [b EXCEPT !.regs = Append(@, [alloc_reg EXCEPT !.vn = Top(b), !.rn = -1]),
              !.stk[Len(b.stk)] = Len(b.regs) + 1]

new_reg(b) == IF b.err THEN b ELSE reg_init(bump_nreg(b))

\* The field assignments `ir.borrow_mut().f = v` on the instruction b.h.
ir_set(b, upd) == IF b.err THEN b ELSE [b EXCEPT !.bbs[b.h[1]].ir[b.h[2]] = upd @@ @]

emit(b, op, r0, r1, r2) ==
    IF b.err THEN b
    ELSE ir_set(new_ir(b, op), [r0 |-> r0, r1 |-> r1, r2 |-> r2])

br(b, r, then, els) ==
    IF b.err THEN b
    ELSE ir_set(new_ir(b, "BR"), [r2 |-> r, bb1 |-> then, bb2 |-> els])

jmp(b, bb) ==
    IF b.err THEN b
    ELSE ir_set(new_ir(b, "JMP"), [bb1 |-> bb])

\* jmp_arg that drops its argument.
jmp_arg_dropped(b, bb, r) == ir_set(new_ir(b, "JMP"), [bb1 |-> bb])

jmp_arg(b, bb, r) ==
    IF b.err THEN b
    ELSE ir_set(new_ir(b, "JMP"), [bb1 |-> bb, bbarg |-> r])

\* imm once the register is on the stack and the IMM is in b.h.
imm_set(b, v) ==
    IF b.err THEN b
    ELSE ir_set(b, [r0 |-> Top(b), imm |-> v])

imm(b, v) ==
    IF b.err THEN b
    ELSE imm_set(new_ir(new_reg(b), "IMM"), v)

load(b, node, dst, src) ==
    IF b.err THEN b
    ELSE ir_set(emit(b, "LOAD", dst, 0, src), [size |-> node.ty.size])

\* The same calls, with their arguments taken from slots of the stack.
emit_at(b, op, i0, i1, i2) ==
    IF b.err THEN b
    ELSE emit(b, op, slot(b, i0), slot(b, i1), slot(b, i2))

br_at(b, i, j, k) ==
    IF b.err THEN b
    ELSE br(b, slot(b, i), slot(b, j), slot(b, k))

jmp_at(b, i) ==
    IF b.err THEN b
    ELSE jmp(b, slot(b, i))

jmp_arg_at(b, i, j) ==
    IF b.err THEN b
    ELSE jmp_arg(b, slot(b, i), slot(b, j))

set_out_at(b, i) ==
    IF b.err THEN b
    ELSE set_out(b, slot(b, i))

out_param_set_at(b, i) ==
    IF b.err THEN b
    ELSE out_param_set(b, slot(b, i))

load_at(b, node, i, j) ==
    IF b.err THEN b
    ELSE load(b, node, slot(b, i), slot(b, j))

new_bb2(b) ==
    IF b.err THEN b
    ELSE new_bb(new_bb(b))

new_bb3(b) ==
    IF b.err THEN b
    ELSE new_bb(new_bb(new_bb(b)))

new_bb4(b) ==
    IF b.err THEN b
    ELSE new_bb(new_bb(new_bb(new_bb(b))))

(***************************************************************************)
(* gen_lval, gen_expr and gen_stmt.                                        *)
(***************************************************************************)
RECURSIVE gen_lval(_, _)
RECURSIVE gen_expr(_, _)
RECURSIVE gen_stmt(_, _)
RECURSIVE gen_stmts(_, _)
RECURSIVE gen_args(_, _)
RECURSIVE gen_cases(_, _, _)

\* The current block, kept beside an operand's register: the block that
\* receives the branch on it.
push_out(b) ==
    IF b.err THEN b
    ELSE push(b, b.out)

\* The record of one lowered `&&` or `||`: the blocks it created, the blocks
\* holding the branches on its operands, and the registers of its operands
\* and of its result (the locals of the match arm).
note_logic(b, op, f) ==
    IF b.err THEN b
    ELSE [b EXCEPT !.log = Append(@, [op |-> op, blocks |-> SubSeq(b.stk, f + 1, f + 4),
                                      ra |-> slot(b, f + 5), brbb |-> slot(b, f + 6),
                                      rb |-> slot(b, f + 7), rhsbb |-> slot(b, f + 8), rc |-> 0,
                                      join |-> slot(b, f + 4), res |-> slot(b, f + 12)])]

\* The same for `?:`.
note_quest(b, f) ==
    IF b.err THEN b
    ELSE [b EXCEPT !.log = Append(@, [op |-> "QUEST", blocks |-> SubSeq(b.stk, f + 1, f + 3),
                                      ra |-> slot(b, f + 4), brbb |-> slot(b, f + 5),
                                      rb |-> slot(b, f + 6), rhsbb |-> slot(b, f + 7),
                                      rc |-> slot(b, f + 8), join |-> slot(b, f + 3),
                                      res |-> slot(b, f + 10)])]

\* Locals: f+1 r1, f+2 r2, f+3 r3.
\* gen_binop lowering its right operand first.
gen_binop_rhs_first(b, f, ty, node) ==
    leave(emit_at(gen_expr(gen_expr(new_reg(b), node.rhs), node.lhs), ty, f + 1, f + 3, f + 2),
          f, f + 1)

gen_binop(b, f, ty, node) ==
    IF b.err THEN b ELSE
    leave(emit_at(gen_expr(gen_expr(new_reg(b), node.lhs), node.rhs), ty, f + 1, f + 2, f + 3),
          f, f + 1)

\* The tail shared by the LOGAND and LOGOR arms, entered with the current
\* block holding the branch on the second operand: set0 and set1 pass 0 and 1
\* to last, whose parameter is the result.
\* Locals: f+2 set0, f+3 set1, f+4 last, f+9 imm(0), f+10 imm(1), f+11 the
\* new register, f+12 the parameter of last.
gen_set1(b, f) ==
    IF b.err THEN b
    ELSE jmp_arg_at(imm(set_out_at(b, f + 3), 1), f + 4, f + 10)

\* set0 reaching last with a plain jmp.
gen_set0_plain(b, f) == jmp_at(imm(set_out_at(b, f + 2), 0), f + 4)

gen_set0(b, f) ==
    IF b.err THEN b
    ELSE jmp_arg_at(imm(set_out_at(b, f + 2), 0), f + 4, f + 9)

gen_last(b, f) ==
    IF b.err THEN b
    ELSE out_param_get(out_param_set_at(new_reg(set_out_at(b, f + 4)), f + 11))

\* Locals: f+1 bb, f+2 set0, f+3 set1, f+4 last, f+5 the register of lhs,
\* f+7 the register of rhs.
gen_logand_lhs(b, f, node) ==
    IF b.err THEN b ELSE
    set_out_at(br_at(push_out(gen_expr(new_bb4(b), node.lhs)), f + 5, f + 1, f + 2), f + 1)

gen_logand_rhs(b, f, node) ==
    IF b.err THEN b
    ELSE br_at(push_out(gen_expr(b, node.rhs)), f + 7, f + 3, f + 2)

gen_logand(b, f, node) ==
    IF b.err THEN b ELSE
    leave(note_logic(gen_last(gen_set1(gen_set0(gen_logand_rhs(gen_logand_lhs(b, f, node), f, node),
                                                f), f), f), "LOGAND", f),
          f, f + 12)

\* The `||` arm branching like `&&`: on to the second operand when the first
\* is non-zero.
gen_logor_lhs_as_and(b, f, node) ==
    set_out_at(br_at(push_out(gen_expr(new_bb4(b), node.lhs)), f + 5, f + 1, f + 3), f + 1)

gen_logor_lhs(b, f, node) ==
    IF b.err THEN b ELSE
    set_out_at(br_at(push_out(gen_expr(new_bb4(b), node.lhs)), f + 5, f + 3, f + 1), f + 1)

gen_logor_rhs(b, f, node) ==
    IF b.err THEN b
    ELSE br_at(push_out(gen_expr(b, node.rhs)), f + 7, f + 3, f + 2)

gen_logor(b, f, node) ==
    IF b.err THEN b ELSE
    leave(note_logic(gen_last(gen_set1(gen_set0(gen_logor_rhs(gen_logor_lhs(b, f, node), f, node),
                                                f), f), f), "LOGOR", f),
          f, f + 12)

\* Locals: f+1 then, f+2 els, f+3 last, f+4 the register of cond, f+6 the
\* register of then, f+8 the register of els, f+9 the new register, f+10 the
\* parameter of last.
gen_quest_cond(b, f, node) ==
    IF b.err THEN b ELSE
    set_out_at(br_at(push_out(gen_expr(new_bb3(b), node.cond)), f + 4, f + 1, f + 2), f + 1)

gen_quest_then(b, f, node) ==
    IF b.err THEN b ELSE
    set_out_at(jmp_arg_at(push_out(gen_expr(b, node.then)), f + 3, f + 6), f + 2)

gen_quest_els(b, f, node) ==
    IF b.err THEN b
    ELSE jmp_arg_at(gen_expr(b, node.els), f + 3, f + 8)

gen_quest_last(b, f) ==
    IF b.err THEN b
    ELSE out_param_get(out_param_set_at(new_reg(set_out_at(b, f + 3)), f + 9))

gen_quest(b, f, node) ==
    IF b.err THEN b ELSE
    leave(note_quest(gen_quest_last(gen_quest_els(gen_quest_then(gen_quest_cond(b, f, node),
                                                                 f, node), f, node), f), f),
          f, f + 10)

gen_args(b, args) ==
    IF b.err THEN b ELSE
    IF args = <<>> THEN b ELSE gen_args(gen_expr(b, Head(args)), Tail(args))

\* Locals: f+1 .. f+n the registers of the n arguments, f+n+1 the result.
call_set(b, f, node) ==
    IF b.err THEN b ELSE
    ir_set(b, [r0 |-> Top(b), name |-> node.name, nargs |-> Len(node.args),
               args |-> SubSeq(b.stk, f + 1, f + Len(node.args))])

gen_call(b, f, node) ==
    IF b.err THEN b ELSE
    leave(call_set(new_reg(new_ir(gen_args(b, node.args), "CALL")), f, node),
          f, f + Len(node.args) + 1)

\* Locals: f+1 r1, f+2 r2, f+3 r3.
gen_lval_dot(b, f, node) ==
    IF b.err THEN b ELSE
    leave(emit_at(imm(gen_lval(new_reg(b), node.expr), node.ty.offset), "ADD", f + 1, f + 2, f + 3),
          f, f + 1)

lval_var_set(b, node) ==
    IF b.err THEN b ELSE
    IF node.var.is_local THEN ir_set(b, [r0 |-> Top(b), var |-> node.var.name])
    ELSE ir_set(b, [r0 |-> Top(b), name |-> node.var.name])

gen_lval_var(b, node) ==
    IF b.err THEN b ELSE
    lval_var_set(new_reg(new_ir(b, IF node.var.is_local THEN "BPREL" ELSE "LABEL_ADDR")), node)

\* gen_lval without its assert: any other node is lowered as a value.
gen_lval_no_assert(b, node) ==
    IF node.op = "DOT" THEN gen_lval_dot(b, Len(b.stk), node)
    ELSE IF node.op = "VARREF" THEN gen_lval_var(b, node)
    ELSE gen_expr(b, node)

gen_lval(b, node) ==
    IF b.err THEN b
    ELSE IF node.op = "DEREF" THEN gen_expr(b, node.expr)
    ELSE IF node.op = "DOT" THEN gen_lval_dot(b, Len(b.stk), node)
    ELSE IF node.op # "VARREF" THEN panic(b)
    ELSE gen_lval_var(b, node)

\* The VARREF | DOT arm of gen_expr.  Locals: f+1 r, f+2 the address.
gen_load_lval(b, f, node) ==
    IF b.err THEN b ELSE
    leave(load_at(gen_lval(new_reg(b), node), node, f + 1, f + 2), f, f + 1)

gen_deref(b, f, node) ==
    IF b.err THEN b ELSE
    leave(load_at(gen_expr(new_reg(b), node.expr), node, f + 1, f + 2), f, f + 1)

\* Locals: f+1 r1, f+2 r2, f+3 imm(0).
gen_cast(b, f, node) ==
    IF b.err THEN b ELSE
    IF node.ty.ty # "BOOL" THEN gen_expr(b, node.expr)
    ELSE leave(emit_at(imm(new_reg(gen_expr(b, node.expr)), 0), "NE", f + 2, f + 1, f + 3),
               f, f + 2)

\* Locals: f+1 r1 (the value), f+2 r2 (the address).
gen_eql(b, f, node) ==
    IF b.err THEN b ELSE
    leave(ir_set(emit_at(gen_lval(gen_expr(b, node.rhs), node.lhs), "STORE", 0, f + 2, f + 1),
                 [size |-> node.ty.size]),
          f, f + 1)

\* The NOT and EXCLAM arms: `op` of the operand and the immediate v.
\* Locals: f+1 r1, f+2 r2, f+3 imm(v).
gen_unop(b, f, op, v, node) ==
    IF b.err THEN b ELSE
    leave(emit_at(imm(gen_expr(new_reg(b), node.expr), v), op, f + 1, f + 2, f + 3), f, f + 1)

gen_comma(b, f, node) ==
    IF b.err THEN b
    ELSE leave(gen_expr(gen_expr(b, node.lhs), node.rhs), f, f + 2)

BinopTypes == {"EQ", "NE", "ADD", "SUB", "MUL", "DIV", "MOD", "LT", "LE", "AND", "OR", "XOR", "SHL", "SHR"}

gen_expr(b, node) ==
    IF b.err THEN b
    ELSE IF node.op = "NUM" THEN imm(b, node.val)
    ELSE IF node.op \in BinopTypes THEN gen_binop(b, Len(b.stk), node.op, node)
    ELSE IF node.op = "LOGAND" THEN gen_logand(b, Len(b.stk), node)
    ELSE IF node.op = "LOGOR" THEN gen_logor(b, Len(b.stk), node)
    ELSE IF node.op \in {"VARREF", "DOT"} THEN gen_load_lval(b, Len(b.stk), node)
    ELSE IF node.op = "CALL" THEN gen_call(b, Len(b.stk), node)
    ELSE IF node.op = "ADDR" THEN gen_lval(b, node.expr)
    ELSE IF node.op = "DEREF" THEN gen_deref(b, Len(b.stk), node)
    ELSE IF node.op = "CAST" THEN gen_cast(b, Len(b.stk), node)
    ELSE IF node.op = "STMT_EXPR" THEN gen_expr(gen_stmts(b, node.stmts), node.expr)
    ELSE IF node.op = "EQL" THEN gen_eql(b, Len(b.stk), node)
    ELSE IF node.op = "NOT" THEN gen_unop(b, Len(b.stk), "XOR", -1, node)
    ELSE IF node.op = "COMMA" THEN gen_comma(b, Len(b.stk), node)
    ELSE IF node.op = "QUEST" THEN gen_quest(b, Len(b.stk), node)
    ELSE IF node.op = "EXCLAM" THEN gen_unop(b, Len(b.stk), "EQ", 0, node)
    ELSE panic(b)

gen_stmts(b, stmts) ==
    IF b.err THEN b ELSE
    IF stmts = <<>> THEN b ELSE gen_stmts(gen_stmt(b, Head(stmts)), Tail(stmts))

\* The block annotated on a loop, switch or case node; a node that was never
\* lowered carries no block of the function.
annot(m, id) == IF id \in DOMAIN m THEN m[id] ELSE 0

\* node.continue_ = new_bb() and node.break_ = new_bb(), the blocks being in
\* slots i and j.
set_continue(b, id, i) == IF b.err THEN b ELSE [b EXCEPT !.cnt = (id :> slot(b, i)) @@ @]

set_break(b, id, i) == IF b.err THEN b ELSE [b EXCEPT !.brk = (id :> slot(b, i)) @@ @]

jmp_continue(b, id) ==
    IF b.err THEN b
    ELSE jmp(b, annot(b.cnt, id))

jmp_break(b, id) ==
    IF b.err THEN b
    ELSE jmp(b, annot(b.brk, id))

out_continue(b, id) ==
    IF b.err THEN b
    ELSE set_out(b, annot(b.cnt, id))

out_break(b, id) ==
    IF b.err THEN b
    ELSE set_out(b, annot(b.brk, id))

\* Some(stmt) is lowered, None is skipped.
gen_opt_stmt(b, opt) ==
    IF b.err THEN b
    ELSE IF opt # <<>> THEN gen_stmt(b, opt[1]) ELSE b

gen_opt_expr(b, opt) ==
    IF b.err THEN b
    ELSE IF opt # <<>> THEN gen_expr(b, opt[1]) ELSE b

\* Locals: f+1 then, f+2 els, f+3 last, f+4 the register of cond.
gen_if_then(b, f, node) ==
    IF b.err THEN b ELSE
    jmp_at(gen_stmt(set_out_at(br_at(gen_expr(new_bb3(b), node.cond), f + 4, f + 1, f + 2), f + 1),
                    node.then), f + 3)

gen_if_els(b, f, node) ==
    IF b.err THEN b
    ELSE jmp_at(gen_opt_stmt(set_out_at(b, f + 2), node.els), f + 3)

gen_if(b, f, node) ==
    IF b.err THEN b
    ELSE leave0(set_out_at(gen_if_els(gen_if_then(b, f, node), f, node), f + 3), f)

\* Locals: f+1 cond, f+2 node.continue_, f+3 body, f+4 node.break_, f+5 the
\* register of the condition.
gen_for_blocks(b, f, node) ==
    IF b.err THEN b ELSE
    set_break(new_bb(new_bb(set_continue(new_bb2(b), node.id, f + 2))), node.id, f + 4)

gen_for_init(b, f, node) ==
    IF b.err THEN b
    ELSE set_out_at(jmp_at(gen_opt_stmt(b, node.init), f + 1), f + 1)

\* The branch of a `for` with its targets exchanged.
for_br_swapped(b, f, node) == br(b, slot(b, f + 5), annot(b.brk, node.id), slot(b, f + 3))

for_br(b, f, node) ==
    IF b.err THEN b
    ELSE br(b, slot(b, f + 5), slot(b, f + 3), annot(b.brk, node.id))

gen_for_cond(b, f, node) ==
    IF b.err THEN b ELSE
    IF node.cond # <<>> THEN for_br(gen_expr(b, node.cond[1]), f, node) ELSE jmp_at(b, f + 3)

gen_for_body(b, f, node) ==
    IF b.err THEN b ELSE
    out_continue(jmp_continue(gen_stmt(set_out_at(b, f + 3), node.body), node.id), node.id)

gen_for_inc(b, f, node) ==
    IF b.err THEN b
    ELSE out_break(jmp_at(gen_opt_expr(b, node.inc), f + 1), node.id)

gen_for(b, f, node) ==
    IF b.err THEN b ELSE
    leave0(gen_for_inc(gen_for_body(gen_for_cond(gen_for_init(gen_for_blocks(b, f, node), f, node),
                                                 f, node), f, node), f, node), f)

\* Locals: f+1 node.continue_, f+2 body, f+3 node.break_, f+4 the register of
\* the condition.
gen_do_blocks(b, f, node) ==
    IF b.err THEN b ELSE
    set_break(new_bb(new_bb(set_continue(new_bb(b), node.id, f + 1))), node.id, f + 3)

gen_do_body(b, f, node) ==
    IF b.err THEN b ELSE
    out_continue(jmp_continue(gen_stmt(set_out_at(jmp_at(b, f + 2), f + 2), node.body), node.id),
                 node.id)

do_br(b, f, node) ==
    IF b.err THEN b
    ELSE br(b, slot(b, f + 4), slot(b, f + 2), annot(b.brk, node.id))

gen_do_while(b, f, node) ==
    IF b.err THEN b ELSE
    leave0(out_break(do_br(gen_expr(gen_do_body(gen_do_blocks(b, f, node), f, node), node.cond),
                           f, node), node.id), f)

\* c.bb = new_bb(), the block being in slot i.
set_case_bb(b, id, i) == IF b.err THEN b ELSE [b EXCEPT !.cbb = (id :> slot(b, i)) @@ @]

case_br(b, f, c) ==
    IF b.err THEN b
    ELSE br(b, slot(b, f + 3), annot(b.cbb, c.id), slot(b, f + 2))

\* One turn of the loop over node.cases; slot ri holds the condition's
\* register.  Locals: f+1 c.bb, f+2 next, f+3 r2, f+4 imm(c.val).
gen_case_test(b, f, c, ri) ==
    IF b.err THEN b ELSE
    leave0(set_out_at(case_br(emit_at(imm(new_reg(new_bb(set_case_bb(new_bb(b), c.id, f + 1))), c.val),
                                      "EQ", f + 3, ri, f + 4), f, c), f + 2), f)

gen_cases(b, cases, ri) ==
    IF cases = <<>> \/ b.err THEN b
    ELSE gen_cases(gen_case_test(b, Len(b.stk), Head(cases), ri), Tail(cases), ri)

\* Locals: f+1 node.break_, f+2 node.continue_, f+3 the register of cond.
gen_switch_blocks(b, f, node) ==
    IF b.err THEN b ELSE
    set_continue(new_bb(set_break(new_bb(b), node.id, f + 1)), node.id, f + 2)

gen_switch_tests(b, f, node) ==
    IF b.err THEN b ELSE
    jmp_break(gen_cases(gen_expr(gen_switch_blocks(b, f, node), node.cond), node.cases, f + 3),
              node.id)

gen_switch(b, f, node) ==
    IF b.err THEN b ELSE
    leave0(out_break(jmp_break(gen_stmt(gen_switch_tests(b, f, node), node.body), node.id), node.id),
           f)

gen_case(b, node) ==
    IF b.err THEN b ELSE
    gen_stmt(set_out(jmp(b, annot(b.cbb, node.id)), annot(b.cbb, node.id)), node.body)

\* set_out(new_bb()).
out_new_bb_f(b, f) ==
    IF b.err THEN b
    ELSE leave0(set_out_at(new_bb(b), f + 1), f)

out_new_bb(b) ==
    IF b.err THEN b
    ELSE out_new_bb_f(b, Len(b.stk))

\* gen_break without its set_out(new_bb()).
gen_break_same_bb(b, node) == jmp(b, annot(b.brk, node.target))

gen_break(b, node) ==
    IF b.err THEN b
    ELSE out_new_bb(jmp(b, annot(b.brk, node.target)))

gen_continue(b, node) ==
    IF b.err THEN b
    ELSE out_new_bb(jmp(b, annot(b.cnt, node.target)))

\* Locals: f+1 r.
return_set(b, f) ==
    IF b.err THEN b
    ELSE ir_set(b, [r2 |-> slot(b, f + 1)])

gen_return(b, f, node) ==
    IF b.err THEN b ELSE
    leave0(out_new_bb(return_set(new_ir(gen_expr(b, node.expr), "RETURN"), f)), f)

gen_expr_stmt(b, node) ==
    IF b.err THEN b
    ELSE leave0(gen_expr(b, node.expr), Len(b.stk))

gen_stmt(b, node) ==
    IF b.err \/ node.op = "NULL" THEN b
    ELSE IF node.op = "IF" THEN gen_if(b, Len(b.stk), node)
    ELSE IF node.op = "FOR" THEN gen_for(b, Len(b.stk), node)
    ELSE IF node.op = "DO_WHILE" THEN gen_do_while(b, Len(b.stk), node)
    ELSE IF node.op = "SWITCH" THEN gen_switch(b, Len(b.stk), node)
    ELSE IF node.op = "CASE" THEN gen_case(b, node)
    ELSE IF node.op = "BREAK" THEN gen_break(b, node)
    ELSE IF node.op = "CONTINUE" THEN gen_continue(b, node)
    ELSE IF node.op = "RETURN" THEN gen_return(b, Len(b.stk), node)
    ELSE IF node.op = "EXPR_STMT" THEN gen_expr_stmt(b, node)
    ELSE IF node.op = "COMP_STMT" THEN gen_stmts(b, node.stmts)
    ELSE panic(b)

address_taken(b, var) == IF b.err THEN b ELSE [b EXCEPT !.taken = @ \cup {var.name}]

\* gen_param numbering the arguments from one.
gen_param_from_one(b, var, i) ==
    address_taken(ir_set(new_ir(b, "STORE_ARG"),
                         [var |-> var.name, imm |-> i + 1, size |-> var.ty.size]), var)

gen_param(b, var, i) ==
    IF b.err THEN b ELSE
    address_taken(ir_set(new_ir(b, "STORE_ARG"),
                         [var |-> var.name, imm |-> i, size |-> var.ty.size]), var)

(***************************************************************************)
(* The programs gen_ir is run on.                                          *)
(***************************************************************************)
VarX == Var("x", TRUE, 4)

VarA == Var("a", TRUE, 4)

VarI == Var("i", TRUE, 4)

VarP == Var("p", TRUE, 8)

VarS == Var("s", TRUE, 8)

VarG == Var("g", FALSE, 4)

VarN == Var("n", TRUE, 4)

\* The parameter lists: the first n of these Vars.
ParamVars == <<Var("a", TRUE, 4), Var("b", TRUE, 8), Var("c", TRUE, 1),
               Var("d", TRUE, 4), Var("e", TRUE, 8), Var("f", TRUE, 4)>>

Params(n) == SubSeq(ParamVars, 1, n)

LogOps == {"LOGAND", "LOGOR"}

LogLeaves == {Num(0), Num(2)}

Logic1 ==
    {Bin(o, a, c) : o \in LogOps, a \in LogLeaves, c \in LogLeaves}
    \cup {Quest(a, c, d) : a \in LogLeaves, c \in LogLeaves, d \in {Num(0), Num(3)}}

LogicSub ==
    {Num(0), Num(3), Bin("LOGAND", Num(2), Num(0)), Bin("LOGOR", Num(0), Num(2)),
     Quest(Num(2), Num(0), Num(3))}

Logic2 ==
    {Bin(o, a, c) : o \in LogOps, a \in LogicSub, c \in LogicSub}
    \cup {Quest(a, c, d) : a \in LogicSub, c \in {Num(1), Bin("LOGOR", Num(0), Num(2))},
                           d \in {Num(0), Quest(Num(0), Num(2), Num(3))}}

ArithExprs ==
    {Bin("ADD", Num(1), Bin("MUL", Num(2), Num(3))),
     Bin("ADD", Bin("LOGAND", Num(1), Num(2)), Bin("LOGOR", Num(0), Num(3))),
     Bin("SUB", Bin("MUL", Num(2), Num(3)), Num(1)),
     Bin("EQ", Num(1), Num(1)), Bin("NE", Num(1), Num(2)), Bin("LT", Num(2), Num(1)),
     Bin("LE", Num(2), Num(2)), Un("EXCLAM", Num(3)), Bin("COMMA", Num(1), Num(2)),
     Un("EXCLAM", Bin("LOGAND", Num(2), Num(3)))}

OtherExprs ==
    {Bin("DIV", Num(6), Num(3)), Bin("MOD", Num(7), Num(3)), Bin("AND", Num(6), Num(3)),
     Bin("OR", Num(6), Num(3)), Bin("XOR", Num(6), Num(3)), Bin("SHL", Num(1), Num(3)),
     Bin("SHR", Num(8), Num(3)), Un("NOT", Num(1)),
     VarRef(VarX), VarRef(VarG), Dot(VarRef(VarS), Ty(4, 4, "INT")),
     Dot(Dot(VarRef(VarS), Ty(8, 4, "STRUCT")), Ty(4, 2, "INT")),
     Un("ADDR", VarRef(VarX)), Un("ADDR", Dot(VarRef(VarS), Ty(4, 4, "INT"))),
     Deref(VarRef(VarP), TyInt), Deref(Un("ADDR", VarRef(VarX)), TyInt),
     Cast(Num(3), Ty(1, 0, "BOOL")), Cast(Num(3), Ty(1, 0, "CHAR")),
     Call("f", <<>>), Call("f", <<Num(1)>>), Call("f", <<Num(1), Bin("LOGOR", Num(0), Num(2))>>),
     Eql(VarRef(VarX), Num(3), TyInt), Eql(Deref(VarRef(VarP), TyInt), Num(7), TyInt),
     Eql(VarRef(VarG), Bin("LOGAND", Num(1), Num(2)), TyInt),
     StmtExpr(<<ExprStmt(Eql(VarRef(VarX), Num(3), TyInt))>>, VarRef(VarX)),
     StmtExpr(<<Return(Num(1))>>, Num(2))}

\* Nodes gen_expr and gen_lval have no arm for.
BadExprs == {Un("ADDR", Num(1)), Eql(Num(1), Num(2), TyInt), Un("FUNC", Num(1)),
             Dot(Bin("ADD", Num(1), Num(2)), TyInt)}

Exprs == Logic1 \cup Logic2 \cup ArithExprs \cup OtherExprs \cup BadExprs

Conds == {Num(1), Bin("LOGAND", Num(1), Num(2)), Bin("LOGOR", Num(0), Quest(Num(1), Num(2), Num(3))),
          Quest(Num(0), Num(2), Num(3)), Bin("LT", VarRef(VarI), Num(10))}

Assign(v, e) == ExprStmt(Eql(VarRef(v), e, v.ty))

SimpleStmts == {Null, Return(Num(1)), Assign(VarA, Num(1)), CompStmt(<<>>),
                CompStmt(<<Return(Num(1)), Assign(VarA, Num(2))>>)}

IfStmts ==
    {If(c, t, <<>>) : c \in Conds, t \in SimpleStmts}
    \cup {If(c, t, <<e>>) : c \in {Num(1), Bin("LOGAND", Num(1), Num(2))},
                            t \in SimpleStmts, e \in {Return(Num(2)), Assign(VarA, Num(3))}}

LoopBodies == {Null, Assign(VarA, Bin("ADD", VarRef(VarA), VarRef(VarI))), Break(1), Continue(1),
               CompStmt(<<If(Bin("LOGAND", Num(1), Num(2)), Break(1), <<Continue(1)>>), Assign(VarA, Num(1))>>),
               CompStmt(<<Break(1), Assign(VarA, Num(1))>>),
               CompStmt(<<Continue(1), Assign(VarA, Num(1))>>),
               Return(Num(1))}

ForStmts ==
    {For(1, <<Assign(VarI, Num(0))>>, <<c>>, <<Eql(VarRef(VarI), Bin("ADD", VarRef(VarI), Num(1)), TyInt)>>, s) :
        c \in Conds, s \in LoopBodies}
    \cup {For(1, <<>>, <<>>, <<>>, s) : s \in LoopBodies}
    \cup {For(1, <<>>, <<Num(1)>>, <<>>, For(2, <<>>, <<>>, <<>>, CompStmt(<<Break(2), Continue(1)>>)))}

DoWhileStmts == {DoWhile(1, s, c) : s \in LoopBodies, c \in Conds}

SwitchStmts ==
    {Switch(1, c, <<>>, CompStmt(<<>>)) : c \in {Num(1)}}
    \cup {Switch(1, c, <<Case(11, 1, Return(Num(1)))>>, CompStmt(<<Case(11, 1, Return(Num(1)))>>)) :
            c \in Conds}
    \cup {Switch(1, c, <<Case(11, 1, s), Case(12, 5, Return(Num(50)))>>,
                 CompStmt(<<Case(11, 1, s), Case(12, 5, Return(Num(50))), Break(1), Return(Num(0))>>)) :
            c \in {VarRef(VarX), Bin("LOGOR", Num(0), Num(5))},
            s \in {Return(Num(1)), Break(1), Assign(VarA, Num(1)), Null}}
    \cup {For(1, <<>>, <<>>, <<>>,
              Switch(2, Num(1), <<Case(11, 1, Continue(1))>>, CompStmt(<<Case(11, 1, Continue(1)), Break(2)>>)))}
    \cup {Switch(1, VarRef(VarX), <<Case(11, 1, Return(Num(1))), Case(12, 5, Return(Num(50)))>>,
                 CompStmt(<<Case(11, 1, Return(Num(1))), Case(12, 5, Return(Num(50))),
                            Default(13, Return(Num(0)))>>))}

\* A statement kind gen_stmt has no arm for.
BadStmts == {[op |-> "VARDEF"], ExprStmt(Un("ADDR", Num(1))), Return(Eql(Num(1), Num(2), TyInt))}

Fib ==
    CompStmt(<<If(Bin("LT", VarRef(VarN), Num(2)), Return(VarRef(VarN)), <<>>),
               Return(Bin("ADD", Call("fib", <<Bin("SUB", VarRef(VarN), Num(1))>>),
                                 Call("fib", <<Bin("SUB", VarRef(VarN), Num(2))>>)))>>)

Sum ==
    CompStmt(<<Assign(VarA, Num(0)),
               For(1, <<Assign(VarI, Num(0))>>, <<Bin("LT", VarRef(VarI), Num(10))>>,
                   <<Eql(VarRef(VarI), Bin("ADD", VarRef(VarI), Num(1)), TyInt)>>,
                   Assign(VarA, Bin("ADD", VarRef(VarA), VarRef(VarI)))),
               Return(VarRef(VarA))>>)

Ptr ==
    CompStmt(<<Assign(VarX, Num(3)), Assign(VarP, Un("ADDR", VarRef(VarX))),
               ExprStmt(Eql(Deref(VarRef(VarP), TyInt), Num(7), TyInt)), Return(VarRef(VarX))>>)

Bodies ==
    {Return(e) : e \in Exprs} \cup {ExprStmt(e) : e \in OtherExprs}
    \cup SimpleStmts \cup IfStmts \cup ForStmts \cup DoWhileStmts \cup SwitchStmts \cup BadStmts
    \cup {CompStmt(<<s, Return(Num(3))>>) : s \in IfStmts \cup SwitchStmts}
    \cup {Fib, Sum, Ptr}

\* The functions of the programs with several functions.
FewFuncs ==
    {Func("f", Params(n), s) : n \in 0..MaxParams,
                               s \in {Null, Return(Bin("LOGAND", Num(1), Num(2))), Return(Num(1))}}
    \cup {Func("g", <<>>, ExprStmt(Un("ADDR", Num(1))))}

RECURSIVE SeqsOf(_, _)
SeqsOf(S, n) ==
    IF n = 0 THEN {<<>>}
    ELSE {<<>>} \cup {<<x>> \o t : x \in S, t \in SeqsOf(S, n - 1)}

Progs ==
    {<<Func("main", <<>>, s)>> : s \in Bodies}
    \cup {<<Func("fib", Params(n), Fib)>> : n \in 0..MaxParams}
    \cup SeqsOf(FewFuncs, MaxFuncs)

(***************************************************************************)
(* gen_ir, one step per stage of its loop over prog.funcs.                 *)
(***************************************************************************)
\* The builder's view of function f: the thread-locals and f's objects.
Cur(f) ==
    [bbs |-> prog[f].bbs, regs |-> prog[f].regs, taken |-> prog[f].taken, brk |-> prog[f].brk,
     cnt |-> prog[f].cnt, cbb |-> prog[f].cbb, log |-> prog[f].log,
     out |-> OUT, nreg |-> NREG, nlabel |-> NLABEL, stk |-> <<>>, h |-> <<0, 0>>, err |-> FALSE]

Commit(f, b, node) ==
    /\ prog' = [prog EXCEPT ![f] = [name |-> @.name, node |-> node, bbs |-> b.bbs, regs |-> b.regs,
                                    taken |-> b.taken, brk |-> b.brk, cnt |-> b.cnt, cbb |-> b.cbb,
                                    log |-> b.log]]
    /\ OUT' = b.out
    /\ NREG' = b.nreg
    /\ NLABEL' = b.nlabel

\* set_fn and the two entry blocks.  Locals: 1 the empty entry block, 2 bb.
gen_entry(b) ==
    leave0(set_out_at(jmp_at(new_bb(set_out_at(new_bb(b), 1)), 2), 2), 0)

\* The synthesized return that ends the function.  Locals: 1 ret_ir, 2 imm(0).
keep_ir(b) == push(b, b.h)

ret_set(b) == IF b.err THEN b ELSE ir_set([b EXCEPT !.h = slot(b, 1)], [r2 |-> slot(b, 2)])

gen_ret(b) ==
    leave0(ret_set(imm(keep_ir(new_ir(b, "RETURN")), 0)), 0)

Init ==
    /\ prog \in Progs
    /\ input = [i \in 1..Len(prog) |-> prog[i].node]
    /\ FN = 0
    /\ OUT = 0
    /\ NREG = 1
    /\ NLABEL = 1
    /\ pc = "next"
    /\ pi = 0
    /\ fns = <<>>
    /\ epc = "off"
    /\ efi = 0
    /\ eji = 0
    /\ asm = <<>>
    /\ LABEL = 0
    /\ ret = <<>>
    /\ ROff

\* The body is lowered, or the builder has panicked.
Built(b) ==
    /\ Commit(FN, b, prog[FN].node)
    /\ pc' = IF b.err THEN "panic" ELSE "ret"

FuncEntry ==
    /\ pc = "next"
    /\ FN < Len(prog)
    /\ prog[FN + 1].node.op = "FUNC"
    /\ FN' = FN + 1
    /\ Commit(FN + 1, gen_entry(Cur(FN + 1)), prog[FN + 1].node)
    /\ pc' = "params"
    /\ pi' = 0
    /\ UNCHANGED <<input, evars, rvars>>

GenParam ==
    /\ pc = "params"
    /\ pi < Len(prog[FN].node.params)
    /\ Commit(FN, gen_param(Cur(FN), prog[FN].node.params[pi + 1], pi), prog[FN].node)
    /\ pi' = pi + 1
    /\ UNCHANGED <<input, FN, pc, evars, rvars>>

GenBody ==
    /\ pc = "params"
    /\ pi = Len(prog[FN].node.params)
    /\ Built(gen_stmt(Cur(FN), prog[FN].node.body))
    /\ UNCHANGED <<input, FN, pi, evars, rvars>>

FuncRet ==
    /\ pc = "ret"
    /\ Commit(FN, gen_ret(Cur(FN)), alloc_node)
    /\ pc' = IF FN < Len(prog) THEN "next" ELSE "done"
    /\ UNCHANGED <<input, FN, pi, evars, rvars>>

Next == FuncEntry \/ GenParam \/ GenBody \/ FuncRet

Spec == Init /\ [][Next]_vars

(***************************************************************************)
(* The emitter (codegen.rs).  It walks the flat IR of the register         *)
(* allocator: a function is a name, a stacksize and a list `ir` of         *)
(* instructions with fields op, lhs, rhs, name and args.  A printed line   *)
(* is the sequence of its tokens.                                          *)
(***************************************************************************)
MaxEmitFuncs == 2

\* crate::regalloc::REGS, the names of the allocatable registers.
REGS == <<"r10", "r11", "rbx", "r12", "r13", "r14", "r15">>

EIr(op, lhs, rhs) == [op |-> op, lhs |-> lhs, rhs |-> rhs, name |-> "", args |-> <<>>]

\* A CALL whose args is a vector of its nargs argument registers.
ECall(lhs, name, args) ==
    [op |-> "CALL", lhs |-> lhs, rhs |-> 0, name |-> name, args |-> args, nargs |-> Len(args)]

\* A CALL whose args is an array of six slots, the first nargs of them used.
ECallArr(lhs, name, nargs, args) ==
    [op |-> "CALL", lhs |-> lhs, rhs |-> 0, name |-> name, args |-> args, nargs |-> nargs]

EFunc(name, stacksize, ir) == [name |-> name, stacksize |-> stacksize, ir |-> ir]

\* regs[i as usize]: an index outside the vector panics.
reg_ok(i) == i \in 0..(Len(REGS) - 1)

reg(i) == IF reg_ok(i) THEN REGS[i + 1] ELSE "?"

\* ir.args[i]; reading a slot the vector does not have panics, like the
\* index -1.
arg_at(ir, i) == IF i < Len(ir.args) THEN ir.args[i + 1] ELSE -1

\* One println!: the register indexes it reads and the tokens it prints.
line(need, text) == [need |-> need, text |-> text]

arg == <<"rdi", "rsi", "rdx", "rcx", "r8", "r9">>

call_moves(ir) == [i \in 1..Len(arg) |-> line({arg_at(ir, i - 1)}, <<"mov", arg[i], reg(arg_at(ir, i - 1))>>)]

call_lines(ir) ==
    <<line({}, <<"push", "rbx">>), line({}, <<"push", "rbp">>), line({}, <<"push", "rsp">>),
      line({}, <<"push", "r12">>), line({}, <<"push", "r13">>), line({}, <<"push", "r14">>),
      line({}, <<"push", "r15">>)>>
    \o call_moves(ir)
    \o <<line({}, <<"push", "r10">>), line({}, <<"push", "r11">>), line({}, <<"mov", "rax", "0">>),
         line({}, <<"call", ir.name>>), line({}, <<"pop", "r11">>), line({}, <<"pop", "r10">>),
         line({ir.lhs}, <<"mov", reg(ir.lhs), "rax">>)>>

\* The opcodes of the builder's IR.
IRType == {"IMM", "BPREL", "MOV", "RETURN", "CALL", "LABEL_ADDR", "EQ", "NE", "LE", "LT", "AND", "OR",
           "XOR", "SHL", "SHR", "MOD", "JMP", "BR", "LOAD", "LOAD_SPILL", "STORE", "STORE_ARG",
           "STORE_SPILL", "ADD", "SUB", "MUL", "DIV", "NOP"}

\* The arms of the match on ir.op; an opcode without an arm panics.
EmitOps == {"IMM", "ADD_IMM", "MOV", "RETURN", "CALL", "LABEL", "JMP", "UNLESS", "LOAD", "STORE",
            "ADD", "SUB", "MUL", "DIV", "NOP"}

ir_lines(ir, end) ==
    CASE ir.op = "IMM" -> <<line({ir.lhs}, <<"mov", reg(ir.lhs), ToString(ir.rhs)>>)>>
      [] ir.op = "ADD_IMM" -> <<line({ir.lhs}, <<"add", reg(ir.lhs), ToString(ir.rhs)>>)>>
      [] ir.op = "MOV" -> <<line({ir.lhs, ir.rhs}, <<"mov", reg(ir.lhs), reg(ir.rhs)>>)>>
      [] ir.op = "RETURN" -> <<line({ir.lhs}, <<"mov", "rax", reg(ir.lhs)>>), line({}, <<"jmp">> \o end)>>
      [] ir.op = "CALL" -> call_lines(ir)
      [] ir.op = "LABEL" -> <<line({}, <<".L", ToString(ir.lhs), ":">>)>>
      [] ir.op = "JMP" -> <<line({}, <<"jmp", ".L", ToString(ir.lhs)>>)>>
      [] ir.op = "UNLESS" -> <<line({ir.lhs}, <<"cmp", reg(ir.lhs), "0">>),
                               line({}, <<"je", ".L", ToString(ir.rhs)>>)>>
      [] ir.op = "LOAD" -> <<line({ir.lhs, ir.rhs}, <<"mov", reg(ir.lhs), "[", reg(ir.rhs), "]">>)>>
      [] ir.op = "STORE" -> <<line({ir.lhs, ir.rhs}, <<"mov", "[", reg(ir.lhs), "]", reg(ir.rhs)>>)>>
      [] ir.op = "ADD" -> <<line({ir.lhs, ir.rhs}, <<"add", reg(ir.lhs), reg(ir.rhs)>>)>>
      [] ir.op = "SUB" -> <<line({ir.lhs, ir.rhs}, <<"sub", reg(ir.lhs), reg(ir.rhs)>>)>>
      [] ir.op = "MUL" -> <<line({ir.rhs}, <<"mov", "rax", reg(ir.rhs)>>),
                            line({ir.lhs}, <<"mul", reg(ir.lhs)>>),
                            line({ir.lhs}, <<"mov", reg(ir.lhs), "rax">>)>>
      [] ir.op = "DIV" -> <<line({ir.lhs}, <<"mov", "rax", reg(ir.lhs)>>), line({}, <<"cqo">>),
                            line({ir.rhs}, <<"div", reg(ir.rhs)>>),
                            line({ir.lhs}, <<"mov", reg(ir.lhs), "rax">>)>>
      [] ir.op = "NOP" -> <<>>

line_ok(l) == \A i \in l.need : reg_ok(i)

\* The instruction is printed without a panic.
ir_ok(ir, end) == ir.op \in EmitOps /\ \A k \in 1..Len(ir_lines(ir, end)) : line_ok(ir_lines(ir, end)[k])

RECURSIVE printed(_)
\* The lines printed before the first println! that panics.
printed(ls) ==
    IF ls = <<>> \/ ~line_ok(Head(ls)) THEN <<>> ELSE <<Head(ls).text>> \o printed(Tail(ls))

ir_printed(ir, end) == IF ir.op \in EmitOps THEN printed(ir_lines(ir, end)) ELSE <<>>

prologue(fun) ==
    <<<<".global", fun.name>>, <<fun.name, ":">>, <<"push", "rbp">>, <<"mov", "rbp", "rsp">>,
      <<"sub", "rsp", ToString(fun.stacksize)>>, <<"push", "r12">>, <<"push", "r13">>,
      <<"push", "r14">>, <<"push", "r15">>>>

epilogue(end) ==
    <<end \o <<":">>, <<"pop", "r15">>, <<"pop", "r14">>, <<"pop", "r13">>, <<"pop", "r12">>,
      <<"mov", "rsp", "rbp">>, <<"pop", "rbp">>, <<"ret">>>>

\* The functions the emitter is run on.
CallSix == ECall(0, "f", <<1, 2, 3, 4, 5, 6>>)

EBodies ==
    {<<>>,
     <<EIr("IMM", 0, 3), EIr("RETURN", 0, 0)>>,
     <<EIr("IMM", 0, 1), EIr("IMM", 1, 2), EIr("ADD", 0, 1), EIr("RETURN", 0, 0)>>,
     <<EIr("IMM", 0, 6), EIr("IMM", 1, 3), EIr("MUL", 0, 1), EIr("DIV", 0, 1), EIr("SUB", 0, 1),
       EIr("RETURN", 0, 0)>>,
     <<EIr("MOV", 0, 0), EIr("ADD_IMM", 0, 8), EIr("IMM", 1, 5), EIr("STORE", 0, 1), EIr("LOAD", 2, 0),
       EIr("NOP", 0, 0), EIr("RETURN", 2, 0)>>,
     <<EIr("IMM", 0, 0), EIr("LABEL", 1, 0), EIr("UNLESS", 0, 2), EIr("JMP", 1, 0), EIr("LABEL", 2, 0),
       EIr("RETURN", 0, 0)>>,
     <<CallSix, EIr("RETURN", 0, 0)>>,
     <<EIr("IMM", 1, 1), CallSix, CallSix>>,
     <<EIr("IMM", 1, 1), ECall(0, "fib", <<1>>), EIr("RETURN", 0, 0)>>,
     <<ECall(0, "g", <<>>)>>,
     <<EIr("IMM", 1, 1), ECallArr(0, "fib", 1, <<1, 0, 0, 0, 0, 0>>), EIr("RETURN", 0, 0)>>,
     <<ECallArr(2, "g", 0, <<0, 0, 0, 0, 0, 0>>), EIr("RETURN", 2, 0)>>,
     <<EIr("IMM", 7, 1)>>,
     <<EIr("IMM", 0, 1), EIr("MUL", 9, 0)>>,
     <<EIr("IMM", 0, 1), EIr("DIV", 0, -1)>>,
     <<EIr("IMM", 0, 7), EIr("IMM", 1, 3), EIr("MOD", 0, 1), EIr("RETURN", 0, 0)>>,
     <<EIr("IMM", 0, 1), EIr("IMM", 1, 1), EIr("EQ", 0, 1), EIr("BR", 0, 1), EIr("RETURN", 0, 0)>>,
     <<EIr("BPREL", 0, 0), EIr("STORE_ARG", 0, 0), EIr("LOAD", 1, 0), EIr("RETURN", 1, 0)>>}

EFns ==
    {<<EFunc("main", 0, body)>> : body \in EBodies}
    \cup {<<EFunc("f", 16, x), EFunc("main", 0, y)>> : x \in EBodies, y \in EBodies}

(***************************************************************************)
(* gen_x86, one step per function prologue, instruction and epilogue.      *)
(***************************************************************************)
label == LABEL

EInit ==
    /\ input = <<>>
    /\ prog = <<>>
    /\ FN = 0
    /\ OUT = 0
    /\ NREG = 1
    /\ NLABEL = 1
    /\ pc = "off"
    /\ pi = 0
    /\ fns \in {x \in EFns : Len(x) <= MaxEmitFuncs}
    /\ epc = "start"
    /\ efi = 0
    /\ eji = 0
    /\ asm = <<>>
    /\ LABEL = 0
    /\ ret = <<>>
    /\ ROff

GenX86 ==
    /\ epc = "start"
    /\ asm' = <<<<".intel_syntax", "noprefix">>>>
    /\ epc' = IF Len(fns) = 0 THEN "done" ELSE "fn"
    /\ UNCHANGED <<bvars, rvars, fns, efi, eji, LABEL, ret>>

\* gen without its call of inc_label.
GenPrologue_no_inc ==
    /\ epc = "fn"
    /\ efi < Len(fns)
    /\ efi' = efi + 1
    /\ ret' = <<".Lend", ToString(label)>>
    /\ asm' = asm \o prologue(fns[efi + 1])
    /\ eji' = 0
    /\ epc' = "body"
    /\ UNCHANGED <<bvars, rvars, fns, LABEL>>

\* gen up to its loop: the end label is taken, then the prologue printed.
GenPrologue ==
    /\ epc = "fn"
    /\ efi < Len(fns)
    /\ efi' = efi + 1
    /\ ret' = <<".Lend", ToString(label)>>
    /\ LABEL' = LABEL + 1
    /\ asm' = asm \o prologue(fns[efi + 1])
    /\ eji' = 0
    /\ epc' = "body"
    /\ UNCHANGED <<bvars, rvars, fns>>

\* One turn of the loop over fun.ir.
GenInstr ==
    /\ epc = "body"
    /\ eji < Len(fns[efi].ir)
    /\ asm' = asm \o ir_printed(fns[efi].ir[eji + 1], ret)
    /\ IF ir_ok(fns[efi].ir[eji + 1], ret)
       THEN eji' = eji + 1 /\ epc' = epc
       ELSE eji' = eji /\ epc' = "panic"
    /\ UNCHANGED <<bvars, rvars, fns, efi, LABEL, ret>>

GenEpilogue ==
    /\ epc = "body"
    /\ eji = Len(fns[efi].ir)
    /\ asm' = asm \o epilogue(ret)
    /\ epc' = IF efi < Len(fns) THEN "fn" ELSE "done"
    /\ UNCHANGED <<bvars, rvars, fns, efi, eji, LABEL, ret>>

ENext == GenX86 \/ GenPrologue \/ GenInstr \/ GenEpilogue

SpecEmit == EInit /\ [][ENext]_vars

(***************************************************************************)
(* The meaning of the IR, as the opcode set of the design describes it:    *)
(* `IMM imm -> r0`, `ADD/SUB/MUL r1,r2 -> r0`, comparisons with result     *)
(* 0/1, `JMP bb1` carrying bbarg into bb1.param, `BR r2 ? bb1 : bb2`,      *)
(* `RETURN r2`.  A run starts at the first block of the function and stops *)
(* at a RETURN, at an instruction outside this fragment (memory and calls  *)
(* are not interpreted), at the end of a block without terminator, or      *)
(* after MaxSteps instructions.                                            *)
(***************************************************************************)
MaxSteps == 48

ArithOps == {"ADD", "SUB", "MUL", "EQ", "NE", "LT", "LE"}

bool01(t) == IF t THEN 1 ELSE 0

arith(op, x, y) ==
    CASE op = "ADD" -> x + y
      [] op = "SUB" -> x - y
      [] op = "MUL" -> x * y
      [] op = "EQ" -> bool01(x = y)
      [] op = "NE" -> bool01(x # y)
      [] op = "LT" -> bool01(x < y)
      [] op = "LE" -> bool01(x <= y)

\* The machine before the first instruction of function f.
start(f) ==
    [bb |-> 1, pos |-> 1, env |-> [r \in 1..Len(prog[f].regs) |-> 0], path |-> <<1>>,
     status |-> "run", res |-> 0]

define(st, r, v) == [st EXCEPT !.env[r] = v, !.pos = @ + 1]

goto(st, bb) ==
    IF bb = 0 THEN [st EXCEPT !.status = "stuck"]
    ELSE [st EXCEPT !.bb = bb, !.pos = 1, !.path = Append(@, bb)]

\* A jump hands its argument to the parameter of its target.
pass(f, st, ir) ==
    IF ir.bbarg = 0 \/ ir.bb1 = 0 THEN st
    ELSE [st EXCEPT !.env[prog[f].bbs[ir.bb1].param] = st.env[ir.bbarg]]

exec(f, st, ir) ==
    IF ir.op = "IMM" THEN define(st, ir.r0, ir.imm)
    ELSE IF ir.op \in ArithOps THEN define(st, ir.r0, arith(ir.op, st.env[ir.r1], st.env[ir.r2]))
    ELSE IF ir.op = "JMP" THEN goto(pass(f, st, ir), ir.bb1)
    ELSE IF ir.op = "BR" THEN goto(st, IF st.env[ir.r2] # 0 THEN ir.bb1 ELSE ir.bb2)
    ELSE IF ir.op = "RETURN" THEN [st EXCEPT !.status = "ret", !.res = st.env[ir.r2]]
    ELSE [st EXCEPT !.status = "stuck"]

step(f, st) ==
    IF st.pos > Len(prog[f].bbs[st.bb].ir) THEN [st EXCEPT !.status = "stuck"]
    ELSE exec(f, st, prog[f].bbs[st.bb].ir[st.pos])

RECURSIVE run(_, _, _)
run(f, st, fuel) ==
    IF st.status # "run" THEN st
    ELSE IF fuel = 0 THEN [st EXCEPT !.status = "fuel"]
    ELSE run(f, step(f, st), fuel - 1)

Exec(f) == run(f, start(f), MaxSteps)

(***************************************************************************)
(* Buffer (rcc_env.rs): the characters read from the input and a cursor.   *)
(* idx is a usize.  A method returns the Buffer it leaves, the value it    *)
(* returns, and whether it panicked.                                       *)
(***************************************************************************)
MaxChars == 3

\* The characters of the inputs, and those char::is_whitespace accepts.
Alphabet == {"a", "b", " ", "\t"}

is_whitespace(c) == c \in {" ", "\t", "\n", "\r"}

Buffers == {[chars |-> cs, idx |-> 0] : cs \in UNION {[1..n -> Alphabet] : n \in 0..MaxChars}}

can_read(self) == Len(self.chars) > self.idx

is_end(self) == ~can_read(self)

\* getc returning the character at the new cursor.
getc_after(self) ==
    [self |-> [self EXCEPT !.idx = @ + 1],
     ret |-> IF self.idx + 1 < Len(self.chars) THEN <<self.chars[self.idx + 2]>> ELSE <<>>,
     st |-> IF self.idx + 1 < Len(self.chars) THEN "ok" ELSE "panic"]

\* self.idx += 1; return self.chars[self.idx - 1]: the index panics when it
\* is not below the length, after the cursor has moved.
getc(self) ==
    [self |-> [self EXCEPT !.idx = @ + 1],
     ret |-> IF self.idx < Len(self.chars) THEN <<self.chars[self.idx + 1]>> ELSE <<>>,
     st |-> IF self.idx < Len(self.chars) THEN "ok" ELSE "panic"]

\* self.idx -= 1 on a usize.  At 0 the subtraction overflows: a build with
\* overflow checks panics there, one without them leaves usize::MAX in idx,
\* written -1 here.
ungetc(self, overflow_checks) ==
    IF self.idx > 0 THEN [self |-> [self EXCEPT !.idx = @ - 1], ret |-> <<>>, st |-> "ok"]
    ELSE IF overflow_checks THEN [self |-> self, ret |-> <<>>, st |-> "panic"]
    ELSE [self |-> [self EXCEPT !.idx = -1], ret |-> <<>>, st |-> "wrapped"]

RECURSIVE getc_nonspace(_)
getc_nonspace(self) ==
    IF can_read(self)
    THEN IF getc(self).st # "ok" THEN getc(self)
         ELSE IF is_whitespace(getc(self).ret[1]) THEN getc_nonspace(getc(self).self)
         ELSE getc(self)
    ELSE [self |-> self, ret |-> <<>>, st |-> "ok"]

\* Buffer::new over the bytes of the input.
BInit ==
    /\ input = <<>>
    /\ prog = <<>>
    /\ FN = 0
    /\ OUT = 0
    /\ NREG = 1
    /\ NLABEL = 1
    /\ pc = "off"
    /\ pi = 0
    /\ fns = <<>>
    /\ epc = "off"
    /\ efi = 0
    /\ eji = 0
    /\ asm = <<>>
    /\ LABEL = 0
    /\ ret = <<>>
    /\ buf \in Buffers
    /\ call = NoCall

\* A method is called and returns r.  Reading ends at a panic, and is not
\* followed further once the cursor has wrapped.
Called(op, r) ==
    /\ call.st = "ok"
    /\ buf' = r.self
    /\ call' = [op |-> op, ret |-> r.ret, old |-> buf.idx, prev |-> call.op, before |-> call.old,
                st |-> r.st]
    /\ UNCHANGED <<bvars, evars>>

Getc == Called("getc", getc(buf))

Ungetc == \E overflow_checks \in BOOLEAN : Called("ungetc", ungetc(buf, overflow_checks))

CanRead == Called("can_read", [self |-> buf, ret |-> <<can_read(buf)>>, st |-> "ok"])

IsEnd == Called("is_end", [self |-> buf, ret |-> <<is_end(buf)>>, st |-> "ok"])

GetcNonspace == Called("getc_nonspace", getc_nonspace(buf))

BNext == Getc \/ Ungetc \/ CanRead \/ IsEnd \/ GetcNonspace

SpecBuf == BInit /\ [][BNext]_vars

(***************************************************************************)
(* Properties of the built IR.                                             *)
(***************************************************************************)
Terminators == {"JMP", "BR", "RETURN"}

Funcs == 1..Len(prog)

Blocks(f) == 1..Len(prog[f].bbs)

\* Function f has been built: its body is lowered and its return emitted.
IsBuilt(f) == f < FN \/ (f = FN /\ pc \in {"next", "done"})

OneTerminatorLast(ir) ==
    /\ Len(ir) > 0
    /\ ir[Len(ir)].op \in Terminators
    /\ \A j \in 1..(Len(ir) - 1) : ir[j].op \notin Terminators

\* C1: after gen_ir has built a program, every block of every function holds
\* exactly one terminator (JMP, BR or RETURN), and it is the block's last
\* instruction.
C1_OneTerminatorLast ==
    pc = "done" => \A f \in Funcs : \A i \in Blocks(f) : OneTerminatorLast(prog[f].bbs[i].ir)

\* The parameter of the block a jump names; a block that is not of the
\* function (an annotation never set) has none.
param_of(f, bb) == IF bb = 0 THEN 0 ELSE prog[f].bbs[bb].param

JmpMatchesParam(f, ir) == ir.op = "JMP" => ((ir.bbarg # 0) <=> (param_of(f, ir.bb1) # 0))

\* C2: after gen_ir has built a program, a JMP carries a block argument
\* exactly when its target block has a param register.
C2_JmpArgMatchesParam ==
    pc = "done" =>
        \A f \in Funcs : \A i \in Blocks(f) : \A j \in 1..Len(prog[f].bbs[i].ir) :
            JmpMatchesParam(f, prog[f].bbs[i].ir[j])

HasJmp(f, carries, takes) ==
    \E i \in Blocks(f) : \E j \in 1..Len(prog[f].bbs[i].ir) :
        /\ prog[f].bbs[i].ir[j].op = "JMP"
        /\ (prog[f].bbs[i].ir[j].bbarg # 0) = carries
        /\ (param_of(f, prog[f].bbs[i].ir[j].bb1) # 0) = takes

\* A built function with a nested &&/||/?: inside a loop, holding jumps of
\* both kinds.
C2_Witness ==
    /\ pc = "done"
    /\ \E f \in Funcs : /\ input[f].body.op \in {"FOR", "DO_WHILE", "IF", "SWITCH"}
                        /\ Len(prog[f].log) >= 2
                        /\ HasJmp(f, TRUE, TRUE)
                        /\ HasJmp(f, FALSE, FALSE)

\* C3: the registers new_reg creates in a function have pairwise different
\* vn, a later one has a strictly larger vn than an earlier one, and each has
\* rn = -1.
C3_VnIncreasing ==
    \A f \in Funcs :
        /\ \A i \in 1..Len(prog[f].regs) : \A j \in 1..Len(prog[f].regs) :
               i < j => prog[f].regs[i].vn < prog[f].regs[j].vn
        /\ \A i \in 1..Len(prog[f].regs) : prog[f].regs[i].rn = -1

C3_Witness == pc = "done" /\ \E f \in Funcs : Len(prog[f].regs) >= 5

\* C4 as stated: the counter of virtual registers is reset at every function
\* boundary, so it has its initial value when gen_ir starts on a function.
C4_CounterReset == (pc = "params" /\ pi = 0) => NREG = 1

RECURSIVE RegsBefore(_)
\* The number of registers created in the functions before f.
RegsBefore(f) == IF f <= 1 THEN 0 ELSE RegsBefore(f - 1) + Len(prog[f - 1].regs)

\* C4: NREG is never reset.  It starts at 1 and counts the registers of the
\* whole program: the j-th register of a function is numbered one more than
\* the registers of all functions before it, plus j.
C4_CounterContinues ==
    /\ NREG = 1 + RegsBefore(Len(prog) + 1)
    /\ \A f \in Funcs : \A j \in 1..Len(prog[f].regs) :
           prog[f].regs[j].vn = RegsBefore(f) + j

\* The second function of a program is built after a first with registers.
C4_Witness == pc = "done" /\ Len(prog) = 2 /\ Len(prog[1].regs) > 0 /\ Len(prog[2].regs) > 0

TargetsBlock(ir, bb) ==
    \/ ir.op = "JMP" /\ ir.bb1 = bb
    \/ ir.op = "BR" /\ (ir.bb1 = bb \/ ir.bb2 = bb)

EntryBlockOk(f) ==
    /\ Len(prog[f].bbs) >= 2
    /\ Len(prog[f].bbs[1].ir) = 1
    /\ prog[f].bbs[1].ir[1].op = "JMP"
    /\ prog[f].bbs[1].ir[1].bb1 = 2
    /\ prog[f].bbs[1].ir[1].bbarg = 0
    /\ \A i \in Blocks(f) : \A j \in 1..Len(prog[f].bbs[i].ir) :
           ~TargetsBlock(prog[f].bbs[i].ir[j], 1)

StoreArgOk(ir, var, i) ==
    /\ ir.op = "STORE_ARG"
    /\ ir.imm = i
    /\ ir.var = var.name
    /\ ir.size = var.ty.size

ParamsOk(f, params) ==
    /\ Len(prog[f].bbs[2].ir) >= Len(params)
    /\ \A i \in 1..Len(params) : StoreArgOk(prog[f].bbs[2].ir[i], params[i], i - 1)
    /\ \A i \in 1..Len(params) : params[i].name \in prog[f].taken
    /\ \A j \in (Len(params) + 1)..Len(prog[f].bbs[2].ir) : prog[f].bbs[2].ir[j].op # "STORE_ARG"

\* C5: the first block of a built function is a single JMP without argument
\* to the second block and is the target of no JMP or BR; the second block
\* starts with one STORE_ARG per parameter, in source order, the i-th (from
\* 0) carrying imm = i, the parameter's Var and its size; every parameter is
\* address_taken.
C5_EntryAndParams ==
    \A f \in Funcs : IsBuilt(f) => EntryBlockOk(f) /\ ParamsOk(f, input[f].params)

HasBranch(f) ==
    \E i \in Blocks(f) : \E j \in 1..Len(prog[f].bbs[i].ir) : prog[f].bbs[i].ir[j].op = "BR"

C5_Witness ==
    pc = "done" /\ \E f \in Funcs : Len(input[f].params) = 2 /\ HasBranch(f)

ReturnsZero(ir) ==
    /\ Len(ir) > 0
    /\ ir[Len(ir)].op = "RETURN"
    /\ \E k \in 1..(Len(ir) - 1) : ir[k].op = "IMM" /\ ir[k].imm = 0 /\ ir[k].r0 = ir[Len(ir)].r2

\* C6: the last instruction of the block that is current when the body has
\* been lowered is a RETURN whose operand r2 is defined by an IMM 0 placed
\* before it in the same block.
C6_EndsWithReturnZero ==
    (FN > 0 /\ pc \in {"next", "done"}) => ReturnsZero(prog[FN].bbs[OUT].ir)

Visited(st, bb) == \E k \in 1..Len(st.path) : st.path[k] = bb

NoRepeat(path) == \A i \in 1..Len(path) : \A j \in 1..Len(path) : i # j => path[i] # path[j]

\* The value a finished run left in the result of the `&&` or `||` recorded
\* in e, against the values of its operands; blocks[1] holds the first
\* instruction of the second operand.
LogicValueOk(st, e) ==
    /\ Visited(st, e.join)
    /\ e.op = "LOGAND" =>
           /\ Visited(st, e.blocks[1]) <=> st.env[e.ra] # 0
           /\ st.env[e.res] = bool01(st.env[e.ra] # 0 /\ st.env[e.rb] # 0)
    /\ e.op = "LOGOR" =>
           /\ Visited(st, e.blocks[1]) <=> st.env[e.ra] = 0
           /\ st.env[e.res] = bool01(st.env[e.ra] # 0 \/ st.env[e.rb] # 0)

\* In a run that returned, every `&&` and `||` whose first operand was
\* evaluated has the short-circuit value.
ShortCircuitOk(f, st) ==
    (st.status = "ret" /\ NoRepeat(st.path)) =>
        \A k \in 1..Len(prog[f].log) :
            (prog[f].log[k].op \in LogOps /\ Visited(st, prog[f].log[k].brbb)) =>
                LogicValueOk(st, prog[f].log[k])

AndOr == Bin("ADD", Bin("LOGAND", Num(1), Num(2)), Bin("LOGOR", Num(0), Num(3)))

Returned(st, v) == st.status = "ret" /\ st.res = v

\* C7: following the CFG built for `a && b`, the join block's parameter
\* receives 1 exactly when a and b are non-zero and 0 otherwise, and b is on
\* the executed path only when a is non-zero; for `a || b` it receives 1
\* exactly when a or b is non-zero, and b is on the path only when a is zero.
\* `(1 && 2) + (0 || 3)` evaluates to 2.
C7_ShortCircuit ==
    \A f \in Funcs : IsBuilt(f) =>
        /\ ShortCircuitOk(f, Exec(f))
        /\ input[f].body = Return(AndOr) => Returned(Exec(f), 2)

C7_Witness ==
    pc = "done" /\ \E f \in Funcs : input[f].body = Return(AndOr) /\ Returned(Exec(f), 2)

Consecutive(blocks) == \A k \in 1..(Len(blocks) - 1) : blocks[k + 1] = blocks[k] + 1

\* Every edge into bb is a JMP carrying an argument.
EdgesCarryArg(f, bb) ==
    \A i \in Blocks(f) : \A j \in 1..Len(prog[f].bbs[i].ir) :
        TargetsBlock(prog[f].bbs[i].ir[j], bb) =>
            prog[f].bbs[i].ir[j].op = "JMP" /\ prog[f].bbs[i].ir[j].bbarg # 0

\* Block bb is `IMM v; JMP join` with the IMM's register as argument.
SetBlock(f, bb, v, join) ==
    /\ Len(prog[f].bbs[bb].ir) = 2
    /\ prog[f].bbs[bb].ir[1].op = "IMM"
    /\ prog[f].bbs[bb].ir[1].imm = v
    /\ prog[f].bbs[bb].ir[2].op = "JMP"
    /\ prog[f].bbs[bb].ir[2].bb1 = join
    /\ prog[f].bbs[bb].ir[2].bbarg = prog[f].bbs[bb].ir[1].r0

\* The arguments of the jumps into bb.
ArgsInto(f, bb) ==
    {prog[f].bbs[i[1]].ir[i[2]].bbarg :
        i \in {x \in UNION {{<<n, m>> : m \in 1..Len(prog[f].bbs[n].ir)} : n \in Blocks(f)} :
                  TargetsBlock(prog[f].bbs[x[1]].ir[x[2]], bb)}}

\* What holds of the blocks of one lowered `&&`, `||` or `?:` whatever
\* their number.
JoinOk(f, e) ==
    /\ Consecutive(e.blocks)
    /\ e.join = e.blocks[Len(e.blocks)]
    /\ e.res # 0
    /\ prog[f].bbs[e.join].param = e.res
    /\ EdgesCarryArg(f, e.join)
    /\ e.op \in LogOps => SetBlock(f, e.blocks[2], 0, e.join) /\ SetBlock(f, e.blocks[3], 1, e.join)
    /\ e.op = "QUEST" => ArgsInto(f, e.join) = {e.rb, e.rc}

RECURSIVE IsPure(_)
\* Expressions of numbers, arithmetic, `!`, `&&`, `||` and `?:` only.
IsPure(e) ==
    IF e.op = "NUM" THEN TRUE
    ELSE IF e.op \in ArithOps \cup LogOps THEN IsPure(e.lhs) /\ IsPure(e.rhs)
    ELSE IF e.op = "EXCLAM" THEN IsPure(e.expr)
    ELSE IF e.op = "QUEST" THEN IsPure(e.cond) /\ IsPure(e.then) /\ IsPure(e.els)
    ELSE FALSE

RECURSIVE DiamondBlocks(_, _)
\* The blocks a pure expression needs when `?:` takes q blocks and `&&`, `||`
\* four each.
DiamondBlocks(e, q) ==
    IF e.op = "NUM" THEN 0
    ELSE IF e.op \in LogOps THEN 4 + DiamondBlocks(e.lhs, q) + DiamondBlocks(e.rhs, q)
    ELSE IF e.op \in ArithOps THEN DiamondBlocks(e.lhs, q) + DiamondBlocks(e.rhs, q)
    ELSE IF e.op = "EXCLAM" THEN DiamondBlocks(e.expr, q)
    ELSE DiamondBlocks(e.cond, q) + DiamondBlocks(e.then, q) + DiamondBlocks(e.els, q) + q

\* `return e;` of a pure e: the function has its two entry blocks, the
\* blocks of e and the block opened after the return.
BlockCountOk(f, q) ==
    (input[f].body.op = "RETURN" /\ IsPure(input[f].body.expr)) =>
        Len(prog[f].bbs) = 3 + DiamondBlocks(input[f].body.expr, q)

\* C8 as stated: each `&&`, `||` and `?:` is lowered with exactly four new
\* blocks, a join block with a parameter that every edge into it feeds with
\* an argument, and that parameter as the expression's register.
C8_FourBlockDiamond ==
    \A f \in Funcs : IsBuilt(f) =>
        /\ \A k \in 1..Len(prog[f].log) : Len(prog[f].log[k].blocks) = 4 /\ JoinOk(f, prog[f].log[k])
        /\ BlockCountOk(f, 4)

BlocksOf(e) == IF e.op = "QUEST" THEN 3 ELSE 4

\* C8: `&&` and `||` are lowered with exactly four new blocks (bb, set0,
\* set1, last), `?:` with exactly three (then, els, last); the last block has
\* a parameter, every edge into it is a JMP with an argument (the IMM 0 of
\* set0 and the IMM 1 of set1 for `&&`/`||`, the registers of the two arms
\* for `?:`), and the parameter is the register of the expression.
C8_Diamond ==
    \A f \in Funcs : IsBuilt(f) =>
        /\ \A k \in 1..Len(prog[f].log) :
               Len(prog[f].log[k].blocks) = BlocksOf(prog[f].log[k]) /\ JoinOk(f, prog[f].log[k])
        /\ BlockCountOk(f, 3)

HasLog(f, op) == \E k \in 1..Len(prog[f].log) : prog[f].log[k].op = op

C8_Witness ==
    pc = "done" /\ \E f \in Funcs : HasLog(f, "QUEST") /\ HasLog(f, "LOGAND") /\ HasLog(f, "LOGOR")

OnePlusTwoTimesThree == Bin("ADD", Num(1), Bin("MUL", Num(2), Num(3)))

\* An instruction as the examples of the design name it: the opcode, with
\* the immediate of an IMM.
Shape(ir) == IF ir.op = "IMM" THEN <<"IMM", ir.imm>> ELSE <<ir.op>>

Shapes(irs) == [k \in 1..Len(irs) |-> Shape(irs[k])]

HasBlock(f, shapes) == \E i \in Blocks(f) : Shapes(prog[f].bbs[i].ir) = shapes

\* C9 as stated: for `return 1+2*3;` one block of main is IMM 2; IMM 3; MUL;
\* IMM 1; ADD; RETURN, and interpreting the IR returns 7.
C9_RhsFirst ==
    \A f \in Funcs : (IsBuilt(f) /\ input[f].body = Return(OnePlusTwoTimesThree)) =>
        /\ HasBlock(f, <<<<"IMM", 2>>, <<"IMM", 3>>, <<"MUL">>, <<"IMM", 1>>, <<"ADD">>, <<"RETURN">>>>)
        /\ Returned(Exec(f), 7)

\* The second block of f is IMM 1 -> r2; IMM 2 -> r4; IMM 3 -> r5;
\* MUL r3 = r4, r5; ADD r1 = r2, r3; RETURN r1, over f's registers r1..r5.
LhsFirstBlock(ir) ==
    /\ Shapes(ir) = <<<<"IMM", 1>>, <<"IMM", 2>>, <<"IMM", 3>>, <<"MUL">>, <<"ADD">>, <<"RETURN">>>>
    /\ <<ir[1].r0, ir[2].r0, ir[3].r0>> = <<2, 4, 5>>
    /\ <<ir[4].r0, ir[4].r1, ir[4].r2>> = <<3, 4, 5>>
    /\ <<ir[5].r0, ir[5].r1, ir[5].r2>> = <<1, 2, 3>>
    /\ ir[6].r2 = 1

\* C9: for `return 1+2*3;` the second block of main is IMM 1; IMM 2; IMM 3;
\* MUL; ADD; RETURN (gen_binop lowers its left operand first), no block is
\* IMM 2; IMM 3; MUL; IMM 1; ADD; RETURN, and interpreting the IR returns 7.
C9_LhsFirst ==
    \A f \in Funcs : (IsBuilt(f) /\ input[f].body = Return(OnePlusTwoTimesThree)) =>
        /\ LhsFirstBlock(prog[f].bbs[2].ir)
        /\ Returned(Exec(f), 7)

C9_Witness ==
    /\ pc = "done"
    /\ \E f \in Funcs : input[f].body = Return(OnePlusTwoTimesThree) /\ Returned(Exec(f), 7)

\* The position of the first terminator of a block, 0 when it has none.
FirstTerm(ir) ==
    IF \E k \in 1..Len(ir) : ir[k].op \in Terminators
    THEN CHOOSE k \in 1..Len(ir) : ir[k].op \in Terminators /\ \A m \in 1..(k - 1) : ir[m].op \notin Terminators
    ELSE 0

\* The instructions of a block that control can reach: those up to its first
\* terminator.
Live(ir) == IF FirstTerm(ir) = 0 THEN ir ELSE SubSeq(ir, 1, FirstTerm(ir))

\* The blocks control can go to from block bb.
Succ(f, bb) ==
    IF FirstTerm(prog[f].bbs[bb].ir) = 0 THEN {}
    ELSE {x \in Blocks(f) : TargetsBlock(prog[f].bbs[bb].ir[FirstTerm(prog[f].bbs[bb].ir)], x)}

RECURSIVE Reach(_, _, _)
\* The blocks control can reach from the blocks of seen without entering a
\* block of avoid.
Reach(f, seen, avoid) ==
    IF (UNION {Succ(f, x) : x \in seen}) \ avoid \subseteq seen THEN seen
    ELSE Reach(f, seen \cup ((UNION {Succ(f, x) : x \in seen}) \ avoid), avoid)

\* Function f has been lowered up to the end of its body, or the builder
\* panicked in it.
Lowered(f) == f < FN \/ (f = FN /\ pc \in {"ret", "next", "done", "panic"})

Panicked(f) == f = FN /\ pc = "panic"

\* The switch that is the body of a function, its first statement, or the
\* body of its loop.
SwitchIn(s) ==
    IF s.op = "SWITCH" THEN s
    ELSE IF s.op = "COMP_STMT" /\ s.stmts # <<>> /\ s.stmts[1].op = "SWITCH" THEN s.stmts[1]
    ELSE IF s.op = "FOR" /\ s.body.op = "SWITCH" THEN s.body
    ELSE Null

HasSwitch(f) == SwitchIn(input[f].body).op = "SWITCH" /\ SwitchIn(input[f].body).cases # <<>>

DefaultsOf(sw) ==
    IF sw.body.op = "COMP_STMT"
    THEN {sw.body.stmts[k].id : k \in {m \in 1..Len(sw.body.stmts) : sw.body.stmts[m].op = "DEFAULT"}}
    ELSE {}

\* The block the chain of tests ends at: the block of the default label when
\* the switch has one, its break block otherwise.
ChainTarget(f, sw) ==
    IF DefaultsOf(sw) # {} THEN annot(prog[f].cbb, CHOOSE d \in DefaultsOf(sw) : TRUE)
    ELSE annot(prog[f].brk, sw.id)

\* The block that tests the first case: the one that branches to its block.
FirstTest(f, sw) ==
    CHOOSE bb \in Blocks(f) : \E j \in 1..Len(prog[f].bbs[bb].ir) :
        /\ prog[f].bbs[bb].ir[j].op = "BR"
        /\ prog[f].bbs[bb].ir[j].bb1 = annot(prog[f].cbb, sw.cases[1].id)

\* The live code l of block bb ends with the test of case c on register r:
\* IMM c.val; EQ r, it; BR to the block of c, else to a block created after
\* the block of c.
TestOk(f, l, bb, c, r) ==
    /\ Len(l) >= 3
    /\ l[Len(l) - 2].op = "IMM" /\ l[Len(l) - 2].imm = c.val
    /\ l[Len(l) - 1].op = "EQ" /\ l[Len(l) - 1].r1 = r /\ l[Len(l) - 1].r2 = l[Len(l) - 2].r0
    /\ l[Len(l)].op = "BR" /\ l[Len(l)].r2 = l[Len(l) - 1].r0
    /\ l[Len(l)].bb1 = annot(prog[f].cbb, c.id)
    /\ l[Len(l)].bb1 > bb
    /\ l[Len(l)].bb2 > l[Len(l)].bb1

RECURSIVE ChainOk(_, _, _, _, _, _)
\* From block bb on the cases are tested in order on register r, each in the
\* block the test before it falls to; the tests after the first are alone in
\* their blocks, and the last falls to a block that only jumps to target.
ChainOk(f, cases, bb, r, first, target) ==
    IF cases = <<>>
    THEN /\ Len(Live(prog[f].bbs[bb].ir)) = 1
         /\ prog[f].bbs[bb].ir[1].op = "JMP"
         /\ prog[f].bbs[bb].ir[1].bb1 = target
         /\ prog[f].bbs[bb].ir[1].bbarg = 0
         /\ target # 0
    ELSE /\ TestOk(f, Live(prog[f].bbs[bb].ir), bb, Head(cases), r)
         /\ first \/ Len(Live(prog[f].bbs[bb].ir)) = 3
         /\ ChainOk(f, Tail(cases), prog[f].bbs[bb].ir[FirstTerm(prog[f].bbs[bb].ir)].bb2, r, FALSE,
                    target)

RECURSIVE ChainEnd(_, _, _)
ChainEnd(f, cases, bb) ==
    IF cases = <<>> THEN bb
    ELSE ChainEnd(f, Tail(cases), prog[f].bbs[bb].ir[FirstTerm(prog[f].bbs[bb].ir)].bb2)

CaseBlocks(f, sw) == {annot(prog[f].cbb, sw.cases[k].id) : k \in 1..Len(sw.cases)}

\* The register the first test compares: the register of the condition.
CondReg(f, bb) == prog[f].bbs[bb].ir[FirstTerm(prog[f].bbs[bb].ir) - 1].r1

\* Without entering a case block control reaches no block created after the
\* chain of tests: the blocks of the body are entered through a case block.
BodyThroughCases(f, sw) ==
    \A x \in Reach(f, {1}, CaseBlocks(f, sw)) : x <= ChainEnd(f, sw.cases, FirstTest(f, sw))

SwitchOk(f, sw) ==
    /\ ~Panicked(f)
    /\ \E bb \in Blocks(f) : \E j \in 1..Len(prog[f].bbs[bb].ir) :
           prog[f].bbs[bb].ir[j].op = "BR" /\ prog[f].bbs[bb].ir[j].bb1 = annot(prog[f].cbb, sw.cases[1].id)
    /\ ChainOk(f, sw.cases, FirstTest(f, sw), CondReg(f, FirstTest(f, sw)), TRUE, ChainTarget(f, sw))
    /\ BodyThroughCases(f, sw)

\* C14: for a switch with cases c1..cn the condition is evaluated once and
\* each case is tested in order by an EQ of the condition's register with
\* IMM ck.val and a BR to ck's own new block, else to a fresh block holding
\* the next test; the chain ends with a JMP to the default block when the
\* switch has a default label and to the break block otherwise, and the
\* body is reachable only through a case or default block.
C14_SwitchChain ==
    \A f \in Funcs : (Lowered(f) /\ HasSwitch(f)) => SwitchOk(f, SwitchIn(input[f].body))

\* The loop that is the body of a function or its second statement.
LoopIn(s) ==
    IF s.op \in {"FOR", "DO_WHILE"} THEN s
    ELSE IF s.op = "COMP_STMT" /\ Len(s.stmts) >= 2 /\ s.stmts[2].op = "FOR" THEN s.stmts[2]
    ELSE Null

Last(ir) == ir[Len(ir)]

IsJmpTo(ir, bb) == ir.op = "JMP" /\ ir.bb1 = bb /\ ir.bbarg = 0

IsBrTo(ir, then, els) == ir.op = "BR" /\ ir.r2 # 0 /\ ir.bb1 = then /\ ir.bb2 = els

\* Block bb ends its live code with a jump to target.
JumpsTo(f, bb, target) ==
    /\ FirstTerm(prog[f].bbs[bb].ir) > 0
    /\ IsJmpTo(prog[f].bbs[bb].ir[FirstTerm(prog[f].bbs[bb].ir)], target)

\* The condition lowered from block bb on ends in BR to then when it is
\* non-zero and to els otherwise: control leaves the blocks of the condition
\* only by that BR, and a condition without `&&`, `||`, `?:` is all in bb.
CondBranches(f, bb, c, then, els) ==
    /\ \A x \in Reach(f, {bb}, {then, els}) :
           /\ FirstTerm(prog[f].bbs[x].ir) > 0
           /\ Last(Live(prog[f].bbs[x].ir)).op # "RETURN"
           /\ Succ(f, x) \cap {then, els} # {} => IsBrTo(Last(Live(prog[f].bbs[x].ir)), then, els)
    /\ \E x \in Reach(f, {bb}, {then, els}) : IsBrTo(Last(Live(prog[f].bbs[x].ir)), then, els)
    /\ c.op \notin LogOps \cup {"QUEST"} =>
           /\ IsBrTo(Last(prog[f].bbs[bb].ir), then, els)
           /\ Len(prog[f].bbs[bb].ir) > 1

\* The body lowered from block body on jumps to cnt at its end: the last block
\* it wrote to ends with that jump, and control never falls off a block of it.
BodyEndsAt(f, body, cnt, brk) ==
    /\ \E x \in {body} \cup {y \in Blocks(f) : y > brk} :
           prog[f].bbs[x].ir # <<>> /\ IsJmpTo(Last(prog[f].bbs[x].ir), cnt)
    /\ \A x \in Reach(f, {body}, {cnt, brk}) : FirstTerm(prog[f].bbs[x].ir) > 0

\* The `for` node n, entered from block pre, with the blocks cond = c - 1,
\* continue = c, body = c + 1 and break = c + 2 created in this order.
ForOk(f, n, pre, c) ==
    /\ c - 1 > pre
    /\ annot(prog[f].brk, n.id) = c + 2
    /\ c + 2 \in Blocks(f)
    /\ JumpsTo(f, pre, c - 1)
    /\ n.init # <<>> => Len(Live(prog[f].bbs[pre].ir)) > 1
    /\ IF n.cond = <<>> THEN prog[f].bbs[c - 1].ir = Live(prog[f].bbs[c - 1].ir) /\ Len(prog[f].bbs[c - 1].ir) = 1
                               /\ JumpsTo(f, c - 1, c + 1)
       ELSE CondBranches(f, c - 1, n.cond[1], c + 1, c + 2)
    /\ BodyEndsAt(f, c + 1, c, c + 2)
    /\ prog[f].bbs[c].ir = Live(prog[f].bbs[c].ir)
    /\ JumpsTo(f, c, c - 1)
    /\ (n.inc = <<>>) <=> (Len(prog[f].bbs[c].ir) = 1)

\* The `do-while` node n, entered from block pre, with continue = c,
\* body = c + 1 and break = c + 2.
DoWhileOk(f, n, pre, c) ==
    /\ c > pre
    /\ annot(prog[f].brk, n.id) = c + 2
    /\ c + 2 \in Blocks(f)
    /\ JumpsTo(f, pre, c + 1)
    /\ BodyEndsAt(f, c + 1, c, c + 2)
    /\ CondBranches(f, c, n.cond, c + 1, c + 2)

LoopOk(f, n, pre) ==
    IF n.op = "FOR" THEN ForOk(f, n, pre, annot(prog[f].cnt, n.id))
    ELSE DoWhileOk(f, n, pre, annot(prog[f].cnt, n.id))

\* A loop that is the whole body of a function whose statements create no
\* block of their own has the two entry blocks and its four.
LoopBlockCount(f, n) ==
    (n = input[f].body /\ n.body = Null /\ (n.op = "DO_WHILE" \/ n.cond = <<>>)
       /\ (n.op = "FOR" \/ n.cond.op \notin LogOps \cup {"QUEST"})) =>
        Len(prog[f].bbs) = IF n.op = "FOR" THEN 6 ELSE 5

HasLoop(f) == LoopIn(input[f].body).op \in {"FOR", "DO_WHILE"}

\* The block that is current when the body of the function being built has
\* been lowered is the break block of the loop that is its body.
CurrentIsBreak(f) ==
    (f = FN /\ pc = "ret" /\ input[f].body.op \in {"FOR", "DO_WHILE"}) =>
        OUT = annot(prog[f].brk, input[f].body.id)

\* The statement after the loop is lowered into the break block.
AfterLoopInBreak(f) ==
    (input[f].body.op = "COMP_STMT" /\ Len(input[f].body.stmts) = 3 /\ input[f].body.stmts[3].op = "RETURN") =>
        Last(Live(prog[f].bbs[annot(prog[f].brk, LoopIn(input[f].body).id)].ir)).op = "RETURN"

EscapeStmts(f) ==
    {Return(Num(1))} \cup {Break(id) : id \in DOMAIN prog[f].brk}
    \cup {Continue(id) : id \in DOMAIN prog[f].cnt}

\* The builder after it lowers s, and after the statement that follows s.
AfterStmt(s) == gen_stmt(Cur(FN), s)

AfterNext(s) == gen_stmt(AfterStmt(s), Assign(VarA, Num(2)))

NoEdgeInto(bbs, bb) ==
    \A x \in 1..Len(bbs) : \A j \in 1..Len(bbs[x].ir) : ~TargetsBlock(bbs[x].ir[j], bb)

\* What s appends to the current block: the jump to the block recorded on
\* its target, or the RETURN of its value.
EscapeCode(f, s, added) ==
    IF s.op = "BREAK" THEN Len(added) = 1 /\ IsJmpTo(added[1], annot(prog[f].brk, s.target))
    ELSE IF s.op = "CONTINUE" THEN Len(added) = 1 /\ IsJmpTo(added[1], annot(prog[f].cnt, s.target))
    ELSE /\ Len(added) = 2
         /\ added[1].op = "IMM"
         /\ added[2].op = "RETURN" /\ added[2].r2 = added[1].r0

\* Lowering s in the current state appends its jump to the current block and
\* makes a new block current; the statement after s goes to the new block,
\* which no JMP or BR targets.
EscapeOk(f, s) ==
    /\ ~AfterNext(s).err
    /\ Len(AfterStmt(s).bbs) = Len(prog[f].bbs) + 1
    /\ AfterStmt(s).out = Len(prog[f].bbs) + 1
    /\ AfterStmt(s).bbs[Len(prog[f].bbs) + 1].ir = <<>>
    /\ \A x \in Blocks(f) : x # OUT => AfterNext(s).bbs[x] = prog[f].bbs[x]
    /\ SubSeq(AfterNext(s).bbs[OUT].ir, 1, Len(prog[f].bbs[OUT].ir)) = prog[f].bbs[OUT].ir
    /\ EscapeCode(f, s, SubSeq(AfterNext(s).bbs[OUT].ir, Len(prog[f].bbs[OUT].ir) + 1,
                               Len(AfterNext(s).bbs[OUT].ir)))
    /\ Len(AfterNext(s).bbs) = Len(prog[f].bbs) + 1
    /\ AfterNext(s).out = Len(prog[f].bbs) + 1
    /\ AfterNext(s).bbs[Len(prog[f].bbs) + 1].ir # <<>>
    /\ Last(AfterNext(s).bbs[Len(prog[f].bbs) + 1].ir).op = "STORE"
    /\ NoEdgeInto(AfterNext(s).bbs, Len(prog[f].bbs) + 1)

HasStore(ir) == \E j \in 1..Len(ir) : ir[j].op = "STORE"

\* A loop whose body is `break; a = 1;` or `continue; a = 1;`, and which
\* creates no block between its own and those of its body.
EscapesFirst(n) ==
    /\ n.op \in {"FOR", "DO_WHILE"}
    /\ n.op = "FOR" => (n.cond = <<>> \/ n.cond[1].op \notin LogOps \cup {"QUEST"})
    /\ n.body.op = "COMP_STMT"
    /\ Len(n.body.stmts) = 2
    /\ n.body.stmts[1].op \in {"BREAK", "CONTINUE"}

\* In such a loop the body block is the jump alone, and the assignment is in
\* the block created next, after the break block, which has no edge into it.
EscapeInLoop(f, n, c) ==
    /\ Len(prog[f].bbs[c + 1].ir) = 1
    /\ IsJmpTo(prog[f].bbs[c + 1].ir[1], IF n.body.stmts[1].op = "BREAK" THEN c + 2 ELSE c)
    /\ c + 3 \in Blocks(f)
    /\ HasStore(prog[f].bbs[c + 3].ir)
    /\ NoEdgeInto(prog[f].bbs, c + 3)

\* `return 1; a = 2;` as the body of a function: the return closes the second
\* entry block and the assignment is in the third block, which has no edge
\* into it.
EscapeAtTop(f) ==
    /\ Len(prog[f].bbs) = 3
    /\ Shapes(prog[f].bbs[2].ir) = <<<<"IMM", 1>>, <<"RETURN">>>>
    /\ HasStore(prog[f].bbs[3].ir)
    /\ NoEdgeInto(prog[f].bbs, 3)

ReturnThenAssign == CompStmt(<<Return(Num(1)), Assign(VarA, Num(2))>>)

\* C16: a `break` (`continue`) appends a JMP without argument to the break_
\* (continue_) block recorded on its target and makes a new block current;
\* the statements after it go to that block, and no JMP or BR of the
\* function targets it.  The same holds for the block opened after a
\* `return`.
C16_EscapeBlocks ==
    /\ pc = "ret" => \A s \in EscapeStmts(FN) : EscapeOk(FN, s)
    /\ \A f \in Funcs : (Lowered(f) /\ ~Panicked(f)) =>
           /\ EscapesFirst(input[f].body) =>
                  EscapeInLoop(f, input[f].body, annot(prog[f].cnt, input[f].body.id))
           /\ input[f].body = ReturnThenAssign => EscapeAtTop(f)

\* A loop is lowered, so that break and continue have a recorded target, and
\* its body is `break; a = 1;`.
C16_Witness ==
    /\ pc = "ret"
    /\ EscapesFirst(input[FN].body)
    /\ input[FN].body.body.stmts[1].op = "BREAK"
    /\ Break(1) \in EscapeStmts(FN) /\ Continue(1) \in EscapeStmts(FN)
    /\ EscapeOk(FN, Break(1))

\* The nodes gen_lval is applied to: variables, dereferences and members,
\* and nodes of other kinds.
FieldOf(e) == Dot(e, Ty(4, 4, "INT"))

LvalNodes ==
    {VarRef(VarX), VarRef(VarG), Deref(VarRef(VarP), TyInt), Deref(Bin("ADD", VarRef(VarP), Num(4)), TyInt),
     Deref(Bin("LOGOR", Num(0), Num(2)), TyInt), FieldOf(VarRef(VarS)), FieldOf(VarRef(VarG)),
     Dot(FieldOf(VarRef(VarS)), Ty(2, 8, "INT")), FieldOf(Deref(VarRef(VarP), TyInt))}

NonLvalNodes ==
    {Num(1), Bin("ADD", Num(1), Num(2)), Un("ADDR", VarRef(VarX)), Call("f", <<>>),
     Bin("LOGAND", Num(1), Num(2)), Eql(VarRef(VarX), Num(3), TyInt), Cast(VarRef(VarX), TyInt),
     Un("EXCLAM", VarRef(VarX))}

\* The instructions the builder b1 has in the block that was current in b0
\* beyond those of b0.
Added(b0, b1) == SubSeq(b1.bbs[b0.out].ir, Len(b0.bbs[b0.out].ir) + 1, Len(b1.bbs[b0.out].ir))

\* b1 is b0 with the instructions of Added(b0, b1) and nothing else in its
\* blocks.
OnlyAdded(b0, b1) ==
    /\ ~b1.err
    /\ Len(b1.bbs) = Len(b0.bbs)
    /\ b1.out = b0.out
    /\ \A x \in 1..Len(b0.bbs) : x # b0.out => b1.bbs[x] = b0.bbs[x]
    /\ SubSeq(b1.bbs[b0.out].ir, 1, Len(b0.bbs[b0.out].ir)) = b0.bbs[b0.out].ir

IsNewReg(b0, b1, r) == r > Len(b0.regs) /\ r <= Len(b1.regs)

\* One BPREL carrying the Var of a local, one LABEL_ADDR carrying the name
\* of a global; its register is returned.
VarAddrOk(b0, b1, var) ==
    /\ OnlyAdded(b0, b1)
    /\ Len(Added(b0, b1)) = 1
    /\ IF var.is_local THEN Added(b0, b1)[1].op = "BPREL" /\ Added(b0, b1)[1].var = var.name
                             /\ Added(b0, b1)[1].name = ""
       ELSE Added(b0, b1)[1].op = "LABEL_ADDR" /\ Added(b0, b1)[1].name = var.name
            /\ Added(b0, b1)[1].var = ""
    /\ IsNewReg(b0, b1, Added(b0, b1)[1].r0)
    /\ Top(b1) = Added(b0, b1)[1].r0

\* The register and the blocks of gen_expr(e), nothing more.
DerefAddrOk(b0, b1, e) ==
    /\ ~b1.err
    /\ b1.bbs = gen_expr(b0, e).bbs
    /\ Top(b1) = Top(gen_expr(b0, e))
    /\ b1.out = gen_expr(b0, e).out

\* The code of gen_lval(e), then IMM offset, then ADD of the two; a is the
\* code gen_lval(e) alone adds.
DotAddrOk(b0, b1, node, a) ==
    /\ OnlyAdded(b0, b1)
    /\ Len(Added(b0, b1)) = Len(a) + 2
    /\ Shapes(SubSeq(Added(b0, b1), 1, Len(a))) = Shapes(a)
    /\ Added(b0, b1)[Len(a) + 1].op = "IMM"
    /\ Added(b0, b1)[Len(a) + 1].imm = node.ty.offset
    /\ Added(b0, b1)[Len(a) + 2].op = "ADD"
    /\ Added(b0, b1)[Len(a) + 2].r1 = Added(b0, b1)[Len(a)].r0
    /\ Added(b0, b1)[Len(a) + 2].r2 = Added(b0, b1)[Len(a) + 1].r0
    /\ IsNewReg(b0, b1, Added(b0, b1)[Len(a) + 2].r0)
    /\ Top(b1) = Added(b0, b1)[Len(a) + 2].r0

\* A builder error that leaves the blocks as they were.
LvalFails(b0, b1) == b1.err /\ b1.bbs = b0.bbs /\ b1.out = b0.out

LvalOk(b0, node) ==
    IF node.op = "VARREF" THEN VarAddrOk(b0, gen_lval(b0, node), node.var)
    ELSE IF node.op = "DEREF" THEN DerefAddrOk(b0, gen_lval(b0, node), node.expr)
    ELSE IF node.op = "DOT" THEN
        DotAddrOk(b0, gen_lval(b0, node), node, Added(b0, gen_lval(b0, node.expr)))
    ELSE LvalFails(b0, gen_lval(b0, node))

\* The builder has a current block in which gen_lval can be called.
CanLower == FN > 0 /\ pc \in {"params", "ret"}

\* C17: gen_lval emits one BPREL carrying the Var for a local VARREF and one
\* LABEL_ADDR carrying the name for a global one; for `*e` it returns the
\* register of gen_expr(e) and emits nothing more; for `e.field` it emits
\* gen_lval(e), then IMM field_offset, then the ADD of the two; for every
\* other node kind it fails and appends no instruction.
C17_LvalAddress ==
    CanLower => \A node \in LvalNodes \cup NonLvalNodes : LvalOk(Cur(FN), node)

\* gen_lval is applied in a function with code in its current block: a
\* member of a member yields BPREL; IMM; ADD; IMM; ADD, a sum fails.
C17_Witness ==
    /\ CanLower
    /\ prog[FN].bbs[OUT].ir # <<>>
    /\ Shapes(Added(Cur(FN), gen_lval(Cur(FN), Dot(FieldOf(VarRef(VarS)), Ty(2, 8, "INT"))))) =
           <<<<"BPREL">>, <<"IMM", 4>>, <<"ADD">>, <<"IMM", 8>>, <<"ADD">>>>
    /\ gen_lval(Cur(FN), Bin("ADD", Num(1), Num(2))).err

(***************************************************************************)
(* Properties of the emitted assembly.                                     *)
(***************************************************************************)
\* The lines of the function emitted last: from its .global line on.
FnStart == CHOOSE k \in 1..Len(asm) :
    /\ asm[k][1] = ".global"
    /\ \A m \in (k + 1)..Len(asm) : asm[m][1] # ".global"

FnLines == SubSeq(asm, FnStart, Len(asm))

TailAt(lines, end) == CHOOSE k \in 1..Len(lines) : lines[k] = end \o <<":">>

RECURSIVE stack_at_tail(_, _, _, _)
\* The machine stack when control, falling through from line k, reaches the
\* tail label: each entry is the number of the line that pushed it.  A
\* `jmp` to the tail label is taken; a pop from the empty stack leaves -1.
stack_at_tail(lines, end, k, stack) ==
    IF k >= TailAt(lines, end) THEN stack
    ELSE IF lines[k][1] = "push" THEN stack_at_tail(lines, end, k + 1, Append(stack, k))
    ELSE IF lines[k][1] = "pop" THEN
        IF stack = <<>> THEN <<-1>>
        ELSE stack_at_tail(lines, end, k + 1, SubSeq(stack, 1, Len(stack) - 1))
    ELSE IF lines[k] = <<"jmp">> \o end THEN stack
    ELSE stack_at_tail(lines, end, k + 1, stack)

\* The lines of the prologue that push rbp, r12, r13, r14 and r15.
ProloguePushes == <<3, 6, 7, 8, 9>>

\* No jump inside the body: control falls through to a RETURN or the tail.
StraightLine(fun) == \A k \in 1..Len(fun.ir) : fun.ir[k].op \notin {"LABEL", "JMP", "UNLESS"}

\* C10: when control reaches the tail label of an emitted function the stack
\* is as deep as right after the prologue's pushes, whatever the body (CALL
\* included), so the epilogue pops the values the prologue pushed.
C10_StackBalanced ==
    (epc \in {"fn", "done"} /\ efi > 0 /\ StraightLine(fns[efi])) =>
        stack_at_tail(FnLines, ret, 1, <<>>) = ProloguePushes

\* The lines an emitter step appends to asm.
Appended == SubSeq(asm', Len(asm) + 1, Len(asm'))

\* The loop over fun.ir is about to handle an instruction with opcode op.
AtInstr(op) == epc = "body" /\ eji < Len(fns[efi].ir) /\ fns[efi].ir[eji + 1].op = op

IsArgMove(l) == Len(l) = 3 /\ l[1] = "mov" /\ \E i \in 1..Len(arg) : l[2] = arg[i]

\* The lines ls printed for the CALL ir: n argument moves, the i-th from the
\* register of the i-th argument into the i-th of arg, and after them
\* `mov rax, 0`, `call name` and, last, `mov dst, rax`.
CallLinesOk(ir, ls) ==
    /\ SelectSeq(ls, IsArgMove) = [i \in 1..ir.nargs |-> <<"mov", arg[i], reg(ir.args[i])>>]
    /\ \E k \in 1..(Len(ls) - 1) :
           /\ ls[k] = <<"mov", "rax", "0">>
           /\ ls[k + 1] = <<"call", ir.name>>
           /\ \A m \in 1..Len(ls) : IsArgMove(ls[m]) => m < k
    /\ ls # <<>>
    /\ ls[Len(ls)] = <<"mov", reg(ir.lhs), "rax">>

\* C11: for a CALL with n arguments (0 <= n <= 6) the emitter prints exactly
\* n argument moves, the i-th from the i-th argument's register into the
\* i-th of rdi, rsi, rdx, rcx, r8, r9, then `mov rax, 0`, `call <name>` and
\* after the call `mov <dst>, rax`, reading no argument slot from n on.
C11_CallMovesNargs ==
    [][AtInstr("CALL") =>
           /\ epc' = "body"
           /\ CallLinesOk(fns[efi].ir[eji + 1], Appended)]_vars

Intel == <<".intel_syntax", "noprefix">>

IsEndDef(l) == Len(l) = 3 /\ l[1] = ".Lend" /\ l[3] = ":"

IsEndJmp(l) == Len(l) = 3 /\ l[1] = "jmp" /\ l[2] = ".Lend"

EndDefs == {k \in 1..Len(asm) : IsEndDef(asm[k])}

Globals == {k \in 1..Len(asm) : asm[k][1] = ".global"}

\* The number of functions whose epilogue is printed.
Emitted == IF epc \in {"fn", "done"} THEN efi ELSE IF efi > 0 THEN efi - 1 ELSE 0

\* The line after the section of the function that starts at line g.
SectionEnd(g) ==
    IF \E h \in Globals : h > g THEN CHOOSE h \in Globals : h > g /\ \A x \in Globals : x > g => h <= x
    ELSE Len(asm) + 1

\* `.intel_syntax noprefix` is the first line and no other.
IntelOnce ==
    asm # <<>> => asm[1] = Intel /\ \A k \in 2..Len(asm) : asm[k] # Intel

\* The section g..h-1 of a finished function defines one end label, at the
\* head of its last eight lines, which are the epilogue.
EndLabelOk(g, h) ==
    /\ {k \in EndDefs : g <= k /\ k < h} = {h - 8}
    /\ SubSeq(asm, h - 7, h - 1) =
           <<<<"pop", "r15">>, <<"pop", "r14">>, <<"pop", "r13">>, <<"pop", "r12">>,
             <<"mov", "rsp", "rbp">>, <<"pop", "rbp">>, <<"ret">>>>
    /\ \A j \in g..(h - 1) : IsEndJmp(asm[j]) =>
           /\ asm[j][3] = asm[h - 8][2]
           /\ \E r \in 1..Len(REGS) : asm[j - 1] = <<"mov", "rax", REGS[r]>>

\* The g-th smallest element of Globals heads a finished function.
Finished(g) == Cardinality({x \in Globals : x <= g}) <= Emitted

EndLabelsOk ==
    /\ Cardinality(EndDefs) = Emitted
    /\ \A j \in EndDefs : \A k \in EndDefs : j # k => asm[j][2] # asm[k][2]
    /\ \A g \in Globals : Finished(g) => EndLabelOk(g, SectionEnd(g))

\* A RETURN with a register prints `mov rax, <reg>` and the jump to the end
\* label of the function being emitted.
ReturnLinesOk ==
    (AtInstr("RETURN") /\ reg_ok(fns[efi].ir[eji + 1].lhs)) =>
        /\ epc' = "body"
        /\ Appended = <<<<"mov", "rax", reg(fns[efi].ir[eji + 1].lhs)>>, <<"jmp">> \o ret>>

\* C12: gen_x86 prints `.intel_syntax noprefix` exactly once, before any
\* function; each function gets an end label `.Lend<integer>` different from
\* that of every other function, defined exactly once, after the body and
\* directly before the epilogue; every RETURN prints `mov rax, <reg>` and a
\* jump to the end label of its own function.
C12_EndLabels == [](IntelOnce /\ EndLabelsOk) /\ [][ReturnLinesOk]_vars

HasReturn(fun) == \E k \in 1..Len(fun.ir) : fun.ir[k].op = "RETURN"

\* Two functions with RETURNs are emitted in one run.
C12_Witness ==
    /\ epc = "done"
    /\ Len(fns) = 2
    /\ HasReturn(fns[1]) /\ HasReturn(fns[2])
    /\ Cardinality({j \in 1..Len(asm) : IsEndJmp(asm[j])}) >= 2

\* The opcodes the builder creates: IRType without the two spill opcodes.
BuilderOps == IRType \ {"LOAD_SPILL", "STORE_SPILL"}

\* The instruction the loop is about to handle has an opcode of the builder,
\* and operands that index regs and args within their bounds.
AtBuilderInstr ==
    /\ epc = "body"
    /\ eji < Len(fns[efi].ir)
    /\ fns[efi].ir[eji + 1].op \in BuilderOps
    /\ fns[efi].ir[eji + 1].op \in EmitOps => ir_ok(fns[efi].ir[eji + 1], ret)

\* C13: for every opcode of the builder (IMM, MOV, ADD, SUB, MUL, DIV, MOD,
\* AND, OR, XOR, SHL, SHR, EQ, NE, LT, LE, BPREL, LABEL_ADDR, LOAD, STORE,
\* STORE_ARG, JMP, BR, RETURN, CALL, NOP) gen prints the lowering and goes on
\* to the next instruction; none of them makes the emitter abort.
C13_EveryOpcodeEmitted == [][AtBuilderInstr => (epc' = "body" /\ eji' = eji + 1)]_vars

(***************************************************************************)
(* Properties of the Buffer.                                               *)
(***************************************************************************)
\* The positions from the old cursor on that hold a character that is no
\* whitespace, counted from 1.
NonSpaceFrom(old) == {k \in (old + 1)..Len(buf.chars) : ~is_whitespace(buf.chars[k])}

FirstNonSpace(old) == CHOOSE k \in NonSpaceFrom(old) : \A m \in NonSpaceFrom(old) : k <= m

\* Every call so far was allowed: getc with can_read() true, ungetc with the
\* cursor above 0.
Allowed == call.st = "ok"

CursorInRange == buf.idx >= 0 /\ buf.idx <= Len(buf.chars)

GetcOk == call.op = "getc" => call.ret = <<buf.chars[call.old + 1]>> /\ buf.idx = call.old + 1

UngetcOk ==
    /\ call.op = "ungetc" => buf.idx = call.old - 1
    /\ (call.op = "ungetc" /\ call.prev = "getc") => buf.idx = call.before

CanReadOk ==
    /\ call.op = "can_read" => call.ret = <<buf.idx < Len(buf.chars)>> /\ buf.idx = call.old
    /\ call.op = "is_end" => call.ret = <<buf.idx >= Len(buf.chars)>> /\ buf.idx = call.old
    /\ can_read(buf) <=> buf.idx < Len(buf.chars)

GetcNonspaceOk ==
    call.op = "getc_nonspace" =>
        IF NonSpaceFrom(call.old) # {}
        THEN call.ret = <<buf.chars[FirstNonSpace(call.old)]>> /\ buf.idx = FirstNonSpace(call.old)
        ELSE call.ret = <<>> /\ buf.idx = Len(buf.chars)

\* C18: for a Buffer of n characters and calls in which getc is called only
\* when can_read() is true and ungetc only with the cursor above 0, the
\* cursor stays within 0..n; getc returns the character at the old cursor
\* and advances by one; ungetc directly after getc restores the cursor;
\* can_read() is true exactly when idx < n; getc_nonspace returns the first
\* character at or after the cursor that is no whitespace and leaves the
\* cursor just past it, or returns None with idx = n.
C18_BufferCursor ==
    Allowed => CursorInRange /\ GetcOk /\ UngetcOk /\ CanReadOk /\ GetcNonspaceOk

\* getc_nonspace has skipped whitespace up to a character, after an ungetc
\* that followed a getc.
C18_Witness ==
    /\ Allowed
    /\ call.op = "getc_nonspace"
    /\ call.prev = "ungetc"
    /\ call.ret # <<>>
    /\ buf.idx > call.old + 1

====
